---- MODULE Spec2Model ----
(***************************************************************************)
(* Zone-o-Matic: the zone-file reformatter (pkg/dnsfmt), the atomic file   *)
(* writer (pkg/fileutil) and the zone controller (internal/zone).          *)
(*                                                                         *)
(* Text is modelled at token level.  A byte string (a domain name, a value *)
(* token, a number in a zone file) is a sequence of one-character strings, *)
(* so suffix tests, slicing and lengths are those of the Go code.  A zone  *)
(* file is a sequence of logical lines ("items"): blank line, comment      *)
(* line, control directive, or resource record with its columns.           *)
(***************************************************************************)
EXTENDS Integers, Sequences, FiniteSets, TLC

\* ------------------------------------------------------------------------
\* Bounds of the model
\* ------------------------------------------------------------------------
MaxTime == 2
MaxOps == 2
MaxEdits == 1
MaxZones == 3
MaxLines == 3
MaxName == 4
MaxHex == 64
MaxParams == 2
MaxValues == 8

\* ------------------------------------------------------------------------
\* Byte strings
\* ------------------------------------------------------------------------
NoTTL == -1

Dot == "."

HasSuffix(s, suf) ==
    /\ Len(suf) <= Len(s)
    /\ SubSeq(s, Len(s) - Len(suf) + 1, Len(s)) = suf

HasPrefix(s, pre) ==
    /\ Len(pre) <= Len(s)
    /\ SubSeq(s, 1, Len(pre)) = pre

TrimSuffix(s, suf) ==
    IF HasSuffix(s, suf) THEN SubSeq(s, 1, Len(s) - Len(suf)) ELSE s

\* zonefile.Fqdn: append the trailing dot unless it is there; the empty
\* name stays empty (Reformat tests len(origin) == 0 after Fqdn(nil)).
Fqdn(name) ==
    IF Len(name) = 0 \/ name[Len(name)] = Dot THEN name ELSE name \o <<Dot>>

\* pkg/dnsfmt StripOrigin(origin, name)
StripOrigin(origin, name) ==
    IF Len(origin) > 0 /\ HasSuffix(name, origin)
    THEN IF Len(name) = Len(origin)
         THEN <<"@">>
         ELSE SubSeq(name, 1, Len(name) - Len(origin) - 1)
    ELSE name

\* internal/zone StripOrigin(name, origin)
ZoneStripOrigin(name, origin) ==
    IF ~HasSuffix(name, origin)
    THEN name
    ELSE IF Len(name) = Len(origin)
         THEN <<"@">>
         ELSE SubSeq(name, 1, Len(name) - Len(origin) - 1)

\* ------------------------------------------------------------------------
\* Decimal numbers and time values
\* ------------------------------------------------------------------------
Digits == <<"0", "1", "2", "3", "4", "5", "6", "7", "8", "9">>

IsDigit(c) == \E i \in 1..10 : Digits[i] = c

DigitVal(c) == (CHOOSE i \in 1..10 : Digits[i] = c) - 1

IsDigits(t) == Len(t) > 0 /\ \A i \in 1..Len(t) : IsDigit(t[i])

RECURSIVE DigitsToNat(_)
DigitsToNat(t) ==
    IF Len(t) = 0 THEN 0
    ELSE 10 * DigitsToNat(SubSeq(t, 1, Len(t) - 1)) + DigitVal(t[Len(t)])

RECURSIVE NatToDigits(_)
NatToDigits(n) ==
    IF n < 10 THEN <<Digits[n + 1]>>
    ELSE NatToDigits(n \div 10) \o <<Digits[(n % 10) + 1]>>

UnitSecs(c) ==
    CASE c \in {"w", "W"} -> 604800
      [] c \in {"d", "D"} -> 86400
      [] c \in {"h", "H"} -> 3600
      [] c \in {"m", "M"} -> 60
      [] c \in {"s", "S"} -> 1
      [] OTHER -> 0

ToUpperChar(c) ==
    CASE c = "w" -> "W" [] c = "d" -> "D" [] c = "h" -> "H"
      [] c = "m" -> "M" [] c = "s" -> "S" [] OTHER -> c

ToUpper(t) == [i \in 1..Len(t) |-> ToUpperChar(t[i])]

\* human_to_seconds: decimal seconds, or one number with one unit suffix;
\* anything else is 0.
HumanToSeconds(t) ==
    IF IsDigits(t) THEN DigitsToNat(t)
    ELSE IF Len(t) >= 2 /\ IsDigits(SubSeq(t, 1, Len(t) - 1)) /\ UnitSecs(t[Len(t)]) > 0
         THEN DigitsToNat(SubSeq(t, 1, Len(t) - 1)) * UnitSecs(t[Len(t)])
         ELSE 0

\* seconds_to_human: the largest unit that divides the value exactly.
TimeToHuman(n) ==
    IF n > 0 /\ n % 604800 = 0 THEN NatToDigits(n \div 604800) \o <<"w">>
    ELSE IF n > 0 /\ n % 86400 = 0 THEN NatToDigits(n \div 86400) \o <<"d">>
    ELSE IF n > 0 /\ n % 3600 = 0 THEN NatToDigits(n \div 3600) \o <<"h">>
    ELSE IF n > 0 /\ n % 60 = 0 THEN NatToDigits(n \div 60) \o <<"m">>
    ELSE NatToDigits(n)

TimeToHumanByte(t) == TimeToHuman(HumanToSeconds(t))

\* increase_serial: a serial that is not in the future becomes the current
\* time, any other serial is incremented by one.
Increase(serial, clock) ==
    IF DigitsToNat(serial) <= clock
    THEN NatToDigits(clock)
    ELSE NatToDigits(DigitsToNat(serial) + 1)

\* ------------------------------------------------------------------------
\* Zone text (items) and parsed entries
\* ------------------------------------------------------------------------
\* A logical line of a zone file.  owner = <<>> is a blank owner column,
\* ttl = <<>> a blank TTL column, class = "" a missing class.  layout is
\* "line" or "paren" (parenthesized multi-line form), w the owner column
\* width the line was printed with.
BlankLine ==
    [k |-> "blank", text |-> "", cmd |-> "", owner |-> <<>>, ttl |-> <<>>,
     class |-> "", type |-> "", values |-> <<>>, layout |-> "", w |-> 0]

CommentLine(c) == [BlankLine EXCEPT !.k = "comment", !.text = c]

ControlLine(cmd, args) ==
    [BlankLine EXCEPT !.k = "control", !.cmd = cmd, !.values = args]

RRLine(owner, ttl, class, type, values, layout, w) ==
    [BlankLine EXCEPT !.k = "rr", !.owner = owner, !.ttl = ttl,
                      !.class = class, !.type = type, !.values = values,
                      !.layout = layout, !.w = w]

\* zonefile.Entry: a comment block, a control directive or a record.
CommentEntry(lines) ==
    [k |-> "comment", text |-> lines, cmd |-> "", owner |-> <<>>,
     ttl |-> NoTTL, class |-> "", type |-> "", values |-> <<>>]

ControlEntry(cmd, args) ==
    [CommentEntry(<<>>) EXCEPT !.k = "control", !.cmd = cmd, !.values = args]

RREntry(owner, ttl, class, type, values) ==
    [CommentEntry(<<>>) EXCEPT !.k = "rr", !.owner = owner, !.ttl = ttl,
                               !.class = class, !.type = type,
                               !.values = values]

\* A token the tokenizer rejects (an opening parenthesis never closed).
Unbalanced == <<"(">>

\* zonefile.Load, error part: the text parses unless a record has no type
\* or holds an unbalanced parenthesis.
ParseOK(text) ==
    \A i \in 1..Len(text) :
        text[i].k = "rr" =>
            /\ text[i].type # ""
            /\ \A j \in 1..Len(text[i].values) : text[i].values[j] # Unbalanced

\* zonefile.Load, entry part: blank lines and layout are dropped, a run of
\* comment lines is one comment entry, a TTL column is read as seconds.
RECURSIVE ParseFrom(_, _, _, _)
ParseFrom(text, i, acc, open) ==
    IF i > Len(text) THEN acc
    ELSE LET it == text[i] IN
         CASE it.k = "blank" -> ParseFrom(text, i + 1, acc, FALSE)
           [] it.k = "comment" ->
                IF open
                THEN ParseFrom(text, i + 1,
                               [acc EXCEPT ![Len(acc)].text = @ \o <<it.text>>],
                               TRUE)
                ELSE ParseFrom(text, i + 1,
                               Append(acc, CommentEntry(<<it.text>>)), TRUE)
           [] it.k = "control" ->
                ParseFrom(text, i + 1,
                          Append(acc, ControlEntry(it.cmd, it.values)), FALSE)
           [] OTHER ->
                ParseFrom(text, i + 1,
                          Append(acc,
                                 RREntry(it.owner,
                                         IF it.ttl = <<>> THEN NoTTL
                                         ELSE HumanToSeconds(it.ttl),
                                         it.class, it.type, it.values)),
                          FALSE)

Load(text) == ParseFrom(text, 1, <<>>, FALSE)

\* internal/zone PrintEntries: the intermediate text, one line per record
\* with every column the entry has.
RECURSIVE PrintComments(_)
PrintComments(lines) ==
    IF Len(lines) = 0 THEN <<>>
    ELSE <<CommentLine(Head(lines))>> \o PrintComments(Tail(lines))

RECURSIVE PrintEntries(_)
PrintEntries(entries) ==
    IF Len(entries) = 0 THEN <<>>
    ELSE LET e == Head(entries) IN
         (CASE e.k = "comment" -> PrintComments(e.text)
            [] e.k = "control" -> <<ControlLine(e.cmd, e.values)>>
            [] OTHER ->
                 <<RRLine(e.owner,
                          IF e.ttl = NoTTL THEN <<>> ELSE NatToDigits(e.ttl),
                          e.class, e.type, e.values, "line", 0)>>)
         \o PrintEntries(Tail(entries))

\* ------------------------------------------------------------------------
\* pkg/dnsfmt Reformat
\* ------------------------------------------------------------------------
SplitLim == 55

Max(a, b) == IF a > b THEN a ELSE b

\* Go map[string]int: a missing key reads as 0.
EmptyMap == [x \in {} |-> 0]

MapGet(m, key) == IF key \in DOMAIN m THEN m[key] ELSE 0

MapInc(m, key) ==
    [x \in (DOMAIN m) \cup {key} |->
        IF x = key THEN MapGet(m, key) + 1 ELSE m[x]]

RECURSIVE Join(_)
Join(tokens) ==
    IF Len(tokens) = 0 THEN <<>> ELSE Head(tokens) \o Join(Tail(tokens))

\* Split(buf, lim): chunks of lim bytes, the rest (if any) last.
RECURSIVE Split(_, _)
Split(buf, lim) ==
    IF Len(buf) >= lim
    THEN <<SubSeq(buf, 1, lim)>> \o Split(SubSeq(buf, lim + 1, Len(buf)), lim)
    ELSE IF Len(buf) > 0 THEN <<buf>> ELSE <<>>

\* First pass, the "malformed ... RR" returns of the type switch.
Malformed(type, values) ==
    CASE type = "SOA" -> Len(values) < 3
      [] type = "SRV" -> Len(values) < 4
      [] type = "RRSIG" -> Len(values) < 8
      [] type = "MX" -> Len(values) < 2
      [] type \in {"PTR", "NS", "CNAME", "NSEC"} -> Len(values) < 1
      [] OTHER -> FALSE

\* First pass, the SetValue calls of the type switch.
StripTargets(type, values, origin) ==
    CASE type = "SOA" ->
           [values EXCEPT ![1] = StripOrigin(origin, @),
                          ![2] = StripOrigin(origin, @)]
      [] type = "SRV" -> [values EXCEPT ![4] = StripOrigin(origin, @)]
      [] type = "RRSIG" -> [values EXCEPT ![8] = StripOrigin(origin, @)]
      [] type = "MX" -> [values EXCEPT ![2] = StripOrigin(origin, @)]
      [] type \in {"PTR", "NS", "CNAME", "NSEC"} ->
           [values EXCEPT ![1] = StripOrigin(origin, @)]
      [] OTHER -> values

\* First loop of Reformat over the entries from index i on.
RECURSIVE ScanPass(_, _, _)
ScanPass(ents, i, st) ==
    IF i > Len(ents) \/ st.err # "" THEN st
    ELSE LET e == ents[i] IN
         IF e.k = "comment" THEN ScanPass(ents, i + 1, st)
         ELSE IF e.k = "control"
         THEN ScanPass(ents, i + 1,
                       IF e.cmd = "$ORIGIN"
                       THEN [st EXCEPT !.origin = Fqdn(e.values[1])]
                       ELSE st)
         ELSE LET dom == StripOrigin(st.origin, e.owner)
                  single1 ==
                      IF st.prevname # dom /\ Len(st.prevname) > 0
                      THEN IF Len(dom) > 0
                           THEN MapInc(st.single, dom)
                           ELSE MapInc(st.single, st.prevname)
                      ELSE st.single
                  origin1 ==
                      IF e.type = "SOA" /\ Len(st.origin) = 0
                      THEN Fqdn(dom) ELSE st.origin
              IN IF Malformed(e.type, e.values)
                 THEN [st EXCEPT !.err = "malformed"]
                 ELSE ScanPass(ents, i + 1,
                        [origin |-> origin1,
                         single |-> single1,
                         longestname |-> Max(st.longestname, Len(dom)),
                         prevname |-> IF Len(dom) > 0 THEN dom ELSE st.prevname,
                         ents |-> [st.ents EXCEPT ![i] =
                                     [e EXCEPT !.owner = dom,
                                               !.values = StripTargets(e.type, e.values, origin1)]],
                         err |-> ""])

\* Second loop, the value column of one record: the values printed, the
\* layout, and the error or panic that ends the function.
ValueColumn(e, incrementSerial, clock) ==
    LET values == e.values
        line(vs) == [err |-> "", values |-> vs, layout |-> "line"]
        paren(vs) == [err |-> "", values |-> vs, layout |-> "paren"]
        fail(x) == [err |-> x, values |-> <<>>, layout |-> ""]
    IN CASE e.type = "TXT" ->
              IF Len(values) = 0 THEN fail("panic")
              ELSE IF Len(values) <= 1 THEN line(values) ELSE paren(values)
         [] e.type = "CAA" -> line(values)
         [] e.type = "SOA" ->
              IF Len(values) > 7 THEN fail("panic")
              ELSE paren([i \in 1..Len(values) |->
                            IF i <= 2 THEN values[i]
                            ELSE IF i = 3
                                 THEN IF incrementSerial
                                      THEN Increase(values[i], clock)
                                      ELSE values[i]
                                 ELSE ToUpper(TimeToHumanByte(values[i]))])
         [] e.type \in {"TLSA", "CDS", "DS", "CDNSKEY", "DNSKEY"} ->
              IF Len(values) < 4 THEN fail("malformed")
              ELSE LET pieces == Split(Join(SubSeq(values, 4, Len(values))), SplitLim)
                   IN IF Len(pieces) = 1 THEN line(values)
                      ELSE paren(SubSeq(values, 1, 3) \o pieces)
         [] e.type = "RRSIG" ->
              paren(SubSeq(values, 1, 8)
                    \o Split(Join(SubSeq(values, 9, Len(values))), SplitLim))
         [] OTHER -> line(values)

\* Second loop of Reformat over the entries from index i on.
RECURSIVE EmitPass(_, _, _, _, _, _, _)
EmitPass(ents, i, st, single, longestname, incrementSerial, clock) ==
    IF i > Len(ents) \/ st.err # "" THEN st
    ELSE LET e == ents[i] IN
         IF e.k = "comment"
         THEN EmitPass(ents, i + 1,
                [st EXCEPT !.out = @ \o (IF ~st.prevcom /\ ~st.firstname
                                         THEN <<BlankLine>> ELSE <<>>)
                                   \o PrintComments(e.text),
                           !.prevcom = TRUE, !.prevname = <<>>, !.prevtype = ""],
                single, longestname, incrementSerial, clock)
         ELSE IF e.k = "control"
         THEN EmitPass(ents, i + 1,
                [st EXCEPT !.out = Append(@, ControlLine(e.cmd, e.values)),
                           !.prevcom = FALSE, !.prevname = <<>>, !.prevtype = ""],
                single, longestname, incrementSerial, clock)
         ELSE LET v == MapGet(single, st.prevname)
                  sep ==
                      IF st.prevname # e.owner /\ Len(e.owner) > 0
                         /\ ~st.prevcom /\ ~st.firstname
                      THEN (IF v > 1 THEN <<BlankLine>> ELSE <<>>)
                           \o (IF v = 1 /\ st.prevtype # e.type
                               THEN <<BlankLine>> ELSE <<>>)
                      ELSE <<>>
                  ownerCol == IF st.prevname # e.owner THEN e.owner ELSE <<>>
                  showTTL == e.ttl # NoTTL /\ e.ttl # st.prevttl
                  ttlCol == IF showTTL THEN TimeToHuman(e.ttl) ELSE <<>>
                  classCol == IF e.class # "" THEN e.class ELSE "IN"
                  col == ValueColumn(e, incrementSerial, clock)
              IN IF col.err # ""
                 THEN [st EXCEPT !.err = col.err]
                 ELSE EmitPass(ents, i + 1,
                        [out |-> st.out \o sep
                                 \o <<RRLine(ownerCol, ttlCol, classCol, e.type,
                                             col.values, col.layout, longestname)>>,
                         prevname |-> IF Len(e.owner) > 0 THEN e.owner ELSE st.prevname,
                         prevtype |-> e.type,
                         prevttl |-> IF showTTL THEN e.ttl ELSE st.prevttl,
                         prevcom |-> FALSE,
                         firstname |-> FALSE,
                         err |-> ""],
                        single, longestname, incrementSerial, clock)

\* Reformat(data, origin, w, incrementSerial): err is "" (nil), "parse",
\* "malformed" or "panic"; out is what was written to w on success.
Reformat(data, origin, incrementSerial, clock) ==
    IF ~ParseOK(data) THEN [err |-> "parse", out |-> <<>>]
    ELSE LET zf == Load(data)
             p1 == ScanPass(zf, 1,
                     [origin |-> Fqdn(origin), single |-> EmptyMap,
                      longestname |-> 0, prevname |-> <<>>, ents |-> zf,
                      err |-> ""])
         IN IF p1.err # "" THEN [err |-> p1.err, out |-> <<>>]
            ELSE LET p2 == EmitPass(p1.ents, 1,
                             [out |-> <<>>, prevname |-> <<>>, prevtype |-> "",
                              prevttl |-> 0, prevcom |-> FALSE,
                              firstname |-> TRUE, err |-> ""],
                             p1.single, p1.longestname + 2, incrementSerial, clock)
                 IN [err |-> p2.err, out |-> IF p2.err = "" THEN p2.out ELSE <<>>]

\* ------------------------------------------------------------------------
\* internal/zone: dispatch, matchers, load, updateRecords
\* ------------------------------------------------------------------------
EmptyPlaceholder == <<"placeholder">>

AcmeLabel == "_acme-challenge"

\* nil []byte and nil [][]byte of a Matcher
NilBytes == <<"\\nil">>
NilValues == <<NilBytes>>

\* A suffix test on bytes, not aligned to labels.
domainMatchesOriginBytes(domain, origin) == HasSuffix(domain, origin)

domainMatchesOrigin(domain, origin) ==
    IF domain = origin THEN TRUE
    ELSE LET originNoDot == TrimSuffix(origin, <<Dot>>)
         IN IF originNoDot = <<>> THEN FALSE
            ELSE HasSuffix(domain, <<Dot>> \o originNoDot \o <<Dot>>)

\* findZoneFile: index of the chosen file in the list of origins, 0 for nil.
RECURSIVE FindFrom(_, _, _, _, _)
FindFrom(origins, i, best, bestLen, domainDot) ==
    IF i > Len(origins) THEN best
    ELSE IF ~domainMatchesOrigin(domainDot, origins[i])
         THEN FindFrom(origins, i + 1, best, bestLen, domainDot)
         ELSE IF Len(origins[i]) > bestLen
              THEN FindFrom(origins, i + 1, i, Len(origins[i]), domainDot)
              ELSE FindFrom(origins, i + 1, best, bestLen, domainDot)

findZoneFile(origins, domainDot) == FindFrom(origins, 1, 0, -1, domainDot)

\* Matcher.Match
Match(m, e) ==
    /\ ~(m.Domain # NilBytes /\ e.owner # m.Domain)
    /\ ~(m.RRType # "" /\ m.RRType # e.type)
    /\ ~(m.Values # NilValues /\ e.values # m.Values)

\* Matchers.Match
MatchAny(mm, e) == \E i \in 1..Len(mm) : Match(mm[i], e)

\* File.load after the file was read: the loop over the entries.  The
\* owner of every record becomes StripOrigin(s.origin, owner or previous
\* owner); origin is the last $ORIGIN, soa the owner of the last SOA.
RECURSIVE LoadLoop(_, _, _, _)
LoadLoop(ents, i, sorigin, st) ==
    IF i > Len(ents) THEN st
    ELSE LET ent == ents[i] IN
         IF ent.k = "comment" THEN LoadLoop(ents, i + 1, sorigin, st)
         ELSE IF ent.k = "control"
         THEN LoadLoop(ents, i + 1, sorigin,
                       IF ent.cmd = "$ORIGIN"
                       THEN [st EXCEPT !.origin = Fqdn(ent.values[1])]
                       ELSE st)
         ELSE LET dom == IF ent.owner # <<>> THEN ent.owner ELSE st.prevDomain
                  set == StripOrigin(sorigin, dom)
              IN LoadLoop(ents, i + 1, sorigin,
                    [origin |-> st.origin,
                     prevDomain |-> dom,
                     ok |-> st.ok \/ ent.type = "SOA",
                     soa |-> IF ent.type = "SOA" THEN set ELSE st.soa,
                     ents |-> [st.ents EXCEPT ![i].owner = set]])

\* A load that takes whatever origin the file declares.
loadAnyOrigin(text, sorigin) ==
    IF ~ParseOK(text) THEN [err |-> "parse", ents |-> <<>>, origin |-> sorigin]
    ELSE LET zf == Load(text)
             st == LoadLoop(zf, 1, sorigin,
                     [origin |-> <<>>, prevDomain |-> <<>>, ok |-> FALSE,
                      soa |-> <<>>, ents |-> zf])
         IN IF ~st.ok
            THEN [err |-> "ErrSoaNotFound", ents |-> <<>>, origin |-> sorigin]
            ELSE [err |-> "", ents |-> st.ents,
                  origin |-> IF sorigin # <<>> THEN sorigin
                             ELSE IF st.origin = <<>> THEN st.soa ELSE st.origin]

\* File.load: err is "" (nil), "parse", "ErrSoaNotFound" or
\* "ErrOriginChanged"; origin is the value of s.origin after the call.
load(text, sorigin) ==
    IF ~ParseOK(text) THEN [err |-> "parse", ents |-> <<>>, origin |-> sorigin]
    ELSE LET zf == Load(text)
             st == LoadLoop(zf, 1, sorigin,
                     [origin |-> <<>>, prevDomain |-> <<>>, ok |-> FALSE,
                      soa |-> <<>>, ents |-> zf])
             origin == IF st.origin = <<>> THEN st.soa ELSE st.origin
         IN IF ~st.ok
            THEN [err |-> "ErrSoaNotFound", ents |-> <<>>, origin |-> sorigin]
            ELSE IF sorigin = <<>>
            THEN [err |-> "", ents |-> st.ents, origin |-> origin]
            ELSE IF sorigin # origin
            THEN [err |-> "ErrOriginChanged", ents |-> <<>>, origin |-> sorigin]
            ELSE [err |-> "", ents |-> st.ents, origin |-> sorigin]

\* A splice that replaces the first match and keeps the later ones.
RECURSIVE SpliceFirstOnly(_, _, _, _, _)
SpliceFirstOnly(oldEntries, i, matchers, values, found) ==
    IF i > Len(oldEntries) THEN [ents |-> <<>>, found |-> found]
    ELSE LET ent == oldEntries[i] IN
         IF MatchAny(matchers, ent) /\ ~found
         THEN LET rest == SpliceFirstOnly(oldEntries, i + 1, matchers, values, TRUE)
              IN [ents |-> values \o rest.ents, found |-> TRUE]
         ELSE LET rest == SpliceFirstOnly(oldEntries, i + 1, matchers, values, found)
              IN [ents |-> <<ent>> \o rest.ents, found |-> rest.found]

\* updateRecords step 1: copy the non-matching entries, put the new values
\* in the place of the first match, drop the other matches.
RECURSIVE Splice(_, _, _, _, _)
Splice(oldEntries, i, matchers, values, found) ==
    IF i > Len(oldEntries) THEN [ents |-> <<>>, found |-> found]
    ELSE LET ent == oldEntries[i] IN
         IF MatchAny(matchers, ent)
         THEN LET rest == Splice(oldEntries, i + 1, matchers, values, TRUE)
              IN [ents |-> (IF ~found THEN values ELSE <<>>) \o rest.ents,
                  found |-> TRUE]
         ELSE LET rest == Splice(oldEntries, i + 1, matchers, values, found)
              IN [ents |-> <<ent>> \o rest.ents, found |-> rest.found]

\* updateRecords without the comparison of old and new entries.
EditEntriesAlwaysChanged(oldEntries, matchers, values, allowNew) ==
    LET sp == Splice(oldEntries, 1, matchers, values, FALSE)
        newEntries == IF sp.found THEN sp.ents ELSE sp.ents \o values
    IN IF ~sp.found /\ ~allowNew
       THEN [err |-> "ErrRecordNotFound", ents |-> oldEntries, changed |-> FALSE]
       ELSE [err |-> "", ents |-> newEntries, changed |-> TRUE]

\* updateRecords steps 1 to 3 on the loaded entries: err is "" or
\* "ErrRecordNotFound"; ents the new entry list; changed as in the code.
EditEntries(oldEntries, matchers, values, allowNew) ==
    LET sp == Splice(oldEntries, 1, matchers, values, FALSE)
        newEntries == IF sp.found THEN sp.ents ELSE sp.ents \o values
    IN IF ~sp.found /\ ~allowNew
       THEN [err |-> "ErrRecordNotFound", ents |-> oldEntries, changed |-> FALSE]
       ELSE [err |-> "", ents |-> newEntries,
             changed |-> oldEntries # newEntries]

\* parseEntries
parseEntries(zonebuf) ==
    IF ParseOK(zonebuf) THEN [err |-> "", ents |-> Load(zonebuf)]
    ELSE [err |-> "parse", ents |-> <<>>]

\* ------------------------------------------------------------------------
\* internal/zone: the three File operations up to the call of updateRecords
\* ------------------------------------------------------------------------
\* netip.Addr: family 4 or 6 and a number; Compare orders IPv4 first.
Is4(a) == a.fam = 4

Compare(a, b) ==
    IF a.fam # b.fam THEN (IF a.fam < b.fam THEN -1 ELSE 1)
    ELSE IF a.n < b.n THEN -1 ELSE IF a.n > b.n THEN 1 ELSE 0

AddrString(a) == <<IF Is4(a) THEN "v4" ELSE "v6", Digits[a.n + 1]>>

RECURSIVE InsertSorted(_, _)
InsertSorted(sorted, a) ==
    IF Len(sorted) = 0 THEN <<a>>
    ELSE IF Compare(a, Head(sorted)) < 0 THEN <<a>> \o sorted
         ELSE <<Head(sorted)>> \o InsertSorted(Tail(sorted), a)

RECURSIVE SortFunc(_)
SortFunc(addrs) ==
    IF Len(addrs) = 0 THEN <<>>
    ELSE InsertSorted(SortFunc(Tail(addrs)), Head(addrs))

Not4(a) == ~Is4(a)

\* A line break inside a value, as a token of its own.
Newline == <<"\n">>

\* The tokens of a text cut at its line breaks.
RECURSIVE SplitLines(_)
SplitLines(tokens) ==
    IF \A i \in 1..Len(tokens) : tokens[i] # Newline THEN <<tokens>>
    ELSE LET n == CHOOSE i \in 1..Len(tokens) :
                      /\ tokens[i] = Newline
                      /\ \A j \in 1..(i - 1) : tokens[j] # Newline
         IN <<SubSeq(tokens, 1, n - 1)>>
            \o SplitLines(SubSeq(tokens, n + 1, Len(tokens)))

\* A line read by the tokenizer from its first column: a directive when
\* its first token is one, else owner, optional class, type and values.
\* A type name is a token of one element.
RawLine(tokens) ==
    IF Len(tokens) = 0 THEN BlankLine
    ELSE IF tokens[1] \in {<<"$ORIGIN">>, <<"$TTL">>, <<"$INCLUDE">>}
    THEN ControlLine(tokens[1][1], Tail(tokens))
    ELSE LET rest == Tail(tokens)
             hasClass == Len(rest) > 0 /\ rest[1] = <<"IN">>
             cols == IF hasClass THEN Tail(rest) ELSE rest
         IN RRLine(tokens[1], <<>>, IF hasClass THEN "IN" ELSE "",
                   IF Len(cols) = 0 THEN "" ELSE cols[1][1],
                   IF Len(cols) = 0 THEN <<>> ELSE Tail(cols), "line", 0)

\* "\n%s IN %s %v\n" with the value written as it is: the text after a
\* line break in the value is a line of its own.
SnippetLine(owner, type, values) ==
    LET segs == SplitLines(values)
    IN <<BlankLine, RRLine(owner, <<>>, "IN", type, segs[1], "line", 0)>>
       \o [i \in 1..(Len(segs) - 1) |-> RawLine(segs[i + 1])]

RECURSIVE SnippetLines(_, _, _)
SnippetLines(owner, type, vals) ==
    IF Len(vals) = 0 THEN <<>>
    ELSE SnippetLine(owner, type, Head(vals))
         \o SnippetLines(owner, type, Tail(vals))

Matcher(domain, rrtype, values) ==
    [Domain |-> domain, RRType |-> rrtype, Values |-> values]

\* A dynamic-DNS update that always matches both address types.
UpdateDDNSAddressBothFamilies(sorigin, domain, addrs) ==
    LET sorted == SortFunc(addrs)
        newA == SelectSeq(sorted, Is4)
        newAAAA == SelectSeq(sorted, Not4)
        shortDomain == ZoneStripOrigin(domain, sorigin)
        newentbuf ==
            SnippetLines(shortDomain, "A",
                         [i \in 1..Len(newA) |-> <<AddrString(newA[i])>>])
            \o SnippetLines(shortDomain, "AAAA",
                         [i \in 1..Len(newAAAA) |-> <<AddrString(newAAAA[i])>>])
        parsed == parseEntries(newentbuf)
    IN [err |-> parsed.err,
        matchers
        |-> IF Len(sorted) > 0
            THEN <<Matcher(shortDomain, "A", NilValues),
                   Matcher(shortDomain, "AAAA", NilValues)>>
            ELSE <<>>,
        values |-> parsed.ents,
        allowNew |-> TRUE]

\* File.UpdateDDNSAddress up to updateRecords
UpdateDDNSAddress(sorigin, domain, addrs) ==
    LET sorted == SortFunc(addrs)
        newA == SelectSeq(sorted, Is4)
        newAAAA == SelectSeq(sorted, Not4)
        shortDomain == ZoneStripOrigin(domain, sorigin)
        newentbuf ==
            SnippetLines(shortDomain, "A",
                         [i \in 1..Len(newA) |-> <<AddrString(newA[i])>>])
            \o SnippetLines(shortDomain, "AAAA",
                         [i \in 1..Len(newAAAA) |-> <<AddrString(newAAAA[i])>>])
        parsed == parseEntries(newentbuf)
    IN [err |-> parsed.err,
        matchers
        |-> (IF Len(newA) > 0
             THEN <<Matcher(shortDomain, "A", NilValues)>> ELSE <<>>)
            \o (IF Len(newAAAA) > 0
                THEN <<Matcher(shortDomain, "AAAA", NilValues)>> ELSE <<>>),
        values |-> parsed.ents,
        allowNew |-> TRUE]

\* An ACME update that matches every TXT record at the owner, whatever
\* the old token.
UpdateACMEChallengeAnyValue(sorigin, domain, newToken, oldToken) ==
    LET token == IF newToken = <<>> THEN EmptyPlaceholder ELSE newToken
        shortDomain == ZoneStripOrigin(domain, sorigin)
        parsed == parseEntries(SnippetLine(shortDomain, "TXT", <<token>>))
    IN [err |-> parsed.err,
        matchers |-> <<Matcher(shortDomain, "TXT", NilValues)>>,
        values |-> parsed.ents,
        allowNew |-> TRUE]

\* File.UpdateACMEChallenge up to updateRecords
UpdateACMEChallenge(sorigin, domain, newToken, oldToken) ==
    LET token == IF newToken = <<>> THEN EmptyPlaceholder ELSE newToken
        shortDomain == ZoneStripOrigin(domain, sorigin)
        parsed == parseEntries(SnippetLine(shortDomain, "TXT", <<token>>))
        oldValues == IF oldToken # <<>> THEN <<oldToken>> ELSE NilValues
    IN [err |-> parsed.err,
        matchers |-> <<Matcher(shortDomain, "TXT", oldValues)>>,
        values |-> parsed.ents,
        allowNew |-> TRUE]

\* strings.ToUpper(strings.TrimSpace(typ)) on the type names in use
UpperType(typ) ==
    CASE typ = "a" -> "A" [] typ = "txt" -> "TXT" [] typ = "mx" -> "MX"
      [] OTHER -> typ

\* dns.StringToType: the type names the library knows
StringToType ==
    {"A", "AAAA", "TXT", "MX", "NS", "CNAME", "PTR", "SOA", "SRV", "CAA",
     "TLSA", "DS", "CDS", "DNSKEY", "CDNSKEY", "RRSIG", "NSEC"}

\* A ZM update that may add records.
ZMUpdateRecordAllowNew(sorigin, domain, typ0, newValues) ==
    LET typ == UpperType(typ0)
        shortDomain == ZoneStripOrigin(domain, sorigin)
        parsed == parseEntries(SnippetLines(shortDomain, typ, newValues))
    IN IF typ \notin StringToType
       THEN [err |-> "unknown rrtype", matchers |-> <<>>, values |-> <<>>,
             allowNew |-> FALSE]
       ELSE [err |-> parsed.err,
             matchers |-> <<Matcher(shortDomain, typ, NilValues)>>,
             values |-> parsed.ents,
             allowNew |-> TRUE]

\* File.ZMUpdateRecord up to updateRecords
ZMUpdateRecord(sorigin, domain, typ0, newValues) ==
    LET typ == UpperType(typ0)
        shortDomain == ZoneStripOrigin(domain, sorigin)
        parsed == parseEntries(SnippetLines(shortDomain, typ, newValues))
    IN IF typ \notin StringToType
       THEN [err |-> "unknown rrtype", matchers |-> <<>>, values |-> <<>>,
             allowNew |-> FALSE]
       ELSE [err |-> parsed.err,
             matchers |-> <<Matcher(shortDomain, typ, NilValues)>>,
             values |-> parsed.ents,
             allowNew |-> FALSE]

\* ------------------------------------------------------------------------
\* The managed zone files and the requests of the model
\* ------------------------------------------------------------------------
OriginE == <<"e", ".">>
OriginB == <<"b", ".", "e", ".">>
OriginC == <<"c", ".", "e", ".">>

NameAE == <<"a", ".", "e", ".">>
NameNE == <<"n", ".", "e", ".">>
NameABE == <<"a", ".", "b", ".", "e", ".">>
NameACE == <<"a", ".", "c", ".", "e", ".">>

SoaValues(origin, serial) ==
    <<<<"n", "s", ".">> \o origin, <<"h", ".">> \o origin, serial,
      <<"7", "D">>, <<"1", "H">>, <<"1", "W">>, <<"7", "2", "0", "0">>>>

\* A zone with a $ORIGIN directive, relative and absolute owners, blank
\* owner columns, TTL columns, a missing class and a comment.
ZoneE ==
    <<ControlLine("$ORIGIN", <<OriginE>>),
      RRLine(<<"@">>, <<"1", "h">>, "IN", "SOA", SoaValues(OriginE, <<"0">>), "paren", 0),
      RRLine(<<"a">>, <<>>, "IN", "A", <<<<"v4", "9">>>>, "line", 0),
      RRLine(<<>>, <<>>, "IN", "AAAA", <<<<"v6", "9">>>>, "line", 0),
      RRLine(NameAE, <<>>, "", "MX", <<<<"1", "0">>, <<"m", ".">> \o OriginE>>, "line", 0),
      CommentLine("; acme"),
      RRLine(<<AcmeLabel>>, <<"6", "0">>, "IN", "TXT", <<EmptyPlaceholder>>, "line", 0),
      RRLine(<<>>, <<"6", "0">>, "IN", "TXT", <<<<"tok1">>>>, "line", 0),
      RRLine(<<"w">>, <<>>, "IN", "CNAME", <<NameAE>>, "line", 0)>>

\* A delegated zone with a $ORIGIN directive.
ZoneB ==
    <<ControlLine("$ORIGIN", <<OriginB>>),
      RRLine(<<"@">>, <<>>, "IN", "SOA", SoaValues(OriginB, <<"5">>), "paren", 0),
      RRLine(<<"a">>, <<>>, "IN", "A", <<<<"v4", "9">>>>, "line", 0)>>

\* A zone without $ORIGIN: the origin is the owner of the SOA record.
ZoneC ==
    <<RRLine(OriginC, <<>>, "IN", "SOA", SoaValues(OriginC, <<"5">>), "paren", 0),
      RRLine(NameACE, <<>>, "IN", "A", <<<<"v4", "9">>>>, "line", 0)>>

Files == {1, 2, 3}
Procs == {1, 2}

Zone(f) == CASE f = 1 -> ZoneE [] f = 2 -> ZoneB [] OTHER -> ZoneC

Addr(fam, n) == [fam |-> fam, n |-> n]

NoReq ==
    [op |-> "", domain |-> <<>>, addrs |-> <<>>, newToken |-> <<>>,
     oldToken |-> <<>>, typ |-> "", values |-> <<>>]

DDNSReq(domain, addrs) == [NoReq EXCEPT !.op = "ddns", !.domain = domain, !.addrs = addrs]

ACMEReq(domain, newToken, oldToken) ==
    [NoReq EXCEPT !.op = "acme", !.domain = domain, !.newToken = newToken,
                  !.oldToken = oldToken]

ZMReq(domain, typ, values) ==
    [NoReq EXCEPT !.op = "zm", !.domain = domain, !.typ = typ, !.values = values]

\* The dynamic-DNS calls of the model.
Requests ==
    {DDNSReq(NameAE, <<Addr(4, 1)>>),
     DDNSReq(<<"a", ".", "e">>, <<Addr(6, 1), Addr(4, 2), Addr(4, 1)>>),
     DDNSReq(NameAE, <<Addr(4, 9), Addr(6, 9)>>),
     DDNSReq(NameNE, <<Addr(6, 1)>>),
     DDNSReq(NameAE, <<Addr(6, 1)>>),
     DDNSReq(NameABE, <<Addr(4, 1)>>),
     DDNSReq(NameACE, <<Addr(4, 1)>>),
     DDNSReq(<<"q", ".">>, <<Addr(4, 1)>>),
     DDNSReq(NameAE, <<>>)}

\* The ZM calls of the model.
ZmRequests ==
    {ZMReq(NameAE, "a", <<<<<<"v4", "1">>>>, <<<<"v4", "2">>>>>>),
     ZMReq(NameNE, "A", <<<<<<"v4", "1">>>>>>),
     ZMReq(NameAE, "mx", <<<<<<"2", "0">>, <<"m", "2", ".">> \o OriginE>>>>),
     ZMReq(NameAE, "MX", <<<<<<"2", "0">>>>>>),
     ZMReq(NameAE, "BOGUS", <<<<<<"v4", "1">>>>>>),
     ZMReq(NameAE, "A", <<<<Unbalanced>>>>),
     ZMReq(NameACE, "A", <<<<<<"v4", "1">>>>>>)}

\* ------------------------------------------------------------------------
\* State
\* ------------------------------------------------------------------------
VARIABLES
    disk,    \* per zone file path: contents and permission bits
    tmp,     \* per request handler: the temp file its AtomicWriteFile created
    origin,  \* File.origin of every managed file
    mu,      \* File.mu of every managed file: the holder, 0 when free
    pc,      \* per request handler: where it is
    req,     \* per request handler: the controller call it makes
    loc,     \* per request handler: locals and result of the call
    now,     \* the clock
    nOps,    \* calls started
    nEdits,  \* out-of-band edits made
    arg,     \* the input of a function applied on its own
    res      \* and its result

ctrl == <<disk, tmp, origin, mu, pc, req, loc, now, nOps, nEdits>>

vars == <<disk, tmp, origin, mu, pc, req, loc, now, nOps, nEdits, arg, res>>

NoArg == [fn |-> "", origins |-> <<>>, domain |-> <<>>, text |-> <<>>,
          origin |-> <<>>, name |-> <<>>, value |-> <<>>, other |-> <<>>,
          files |-> <<>>, http |-> <<>>, clock |-> 0]

NoRes == [set |-> FALSE, file |-> 0, first |-> [err |-> "", out |-> <<>>],
          second |-> [err |-> "", out |-> <<>>], short |-> <<>>, zshort |-> <<>>,
          ctl |-> [nil |-> TRUE, files |-> <<>>], resp |-> <<>>]

NoTmp == [exists |-> FALSE, content |-> <<>>, mode |-> ""]

NoLoc ==
    [f |-> 0, domainDot |-> <<>>, pre |-> [content |-> <<>>, mode |-> ""],
     stale |-> FALSE, old |-> <<>>, new |-> <<>>, ret |-> <<>>, mode |-> "",
     err |-> "", changed |-> FALSE]

\* New(zonefiles...): every file is loaded once with an empty File.origin.
New ==
    /\ disk = [f \in Files |->
                 [content |-> Zone(f),
                  mode |-> IF f = 1 THEN "0600" ELSE "0644"]]
    /\ tmp = [p \in Procs |-> NoTmp]
    /\ origin = [f \in Files |-> load(Zone(f), <<>>).origin]
    /\ mu = [f \in Files |-> 0]
    /\ pc = [p \in Procs |-> "idle"]
    /\ req = [p \in Procs |-> NoReq]
    /\ loc = [p \in Procs |-> NoLoc]
    /\ now = 1
    /\ nOps = 0
    /\ nEdits = 0

Init ==
    /\ New
    /\ arg = NoArg
    /\ res = NoRes

\* DomainCtrl.Update*: the domain with its trailing dot, and for ACME with
\* the _acme-challenge label in front.
DomainDot(r) ==
    LET d == IF HasSuffix(r.domain, <<Dot>>) THEN r.domain
             ELSE r.domain \o <<Dot>>
    IN IF r.op = "acme" /\ ~HasPrefix(d, <<AcmeLabel, Dot>>)
       THEN <<AcmeLabel, Dot>> \o d
       ELSE d

\* DomainCtrl.UpdateDDNSAddress / UpdateACMEChallenge / ZMUpdateRecord:
\* dispatch to the zone file, or ErrZoneNotFound.
Start(p, requests) ==
    /\ pc[p] \in {"idle", "done"}
    /\ nOps < MaxOps
    /\ \E r \in requests :
         LET domainDot == DomainDot(r)
             fl == findZoneFile([f \in 1..Cardinality(Files) |-> origin[f]], domainDot)
         IN /\ req' = [req EXCEPT ![p] = r]
            /\ IF fl = 0
               THEN /\ pc' = [pc EXCEPT ![p] = "done"]
                    /\ loc' = [loc EXCEPT ![p] =
                                 [NoLoc EXCEPT !.domainDot = domainDot,
                                               !.err = "ErrZoneNotFound"]]
               ELSE /\ pc' = [pc EXCEPT ![p] = "lock"]
                    /\ loc' = [loc EXCEPT ![p] =
                                 [NoLoc EXCEPT !.f = fl, !.domainDot = domainDot]]
    /\ nOps' = nOps + 1
    /\ UNCHANGED <<disk, tmp, origin, mu, now, nEdits, arg, res>>

\* A lock that does not wait for its holder.
LockNoWait(p) ==
    /\ pc[p] = "lock"
    /\ mu' = [mu EXCEPT ![loc[p].f] = p]
    /\ pc' = [pc EXCEPT ![p] = "update"]
    /\ UNCHANGED <<disk, tmp, origin, req, loc, now, nOps, nEdits, arg, res>>

\* One mutex for the whole controller instead of one per File.
LockGlobal(p) ==
    /\ pc[p] = "lock"
    /\ \A f \in Files : mu[f] = 0
    /\ mu' = [mu EXCEPT ![loc[p].f] = p]
    /\ pc' = [pc EXCEPT ![p] = "update"]
    /\ UNCHANGED <<disk, tmp, origin, req, loc, now, nOps, nEdits, arg, res>>

\* s.mu.Lock()
Lock(p) ==
    /\ pc[p] = "lock"
    /\ mu[loc[p].f] = 0
    /\ mu' = [mu EXCEPT ![loc[p].f] = p]
    /\ pc' = [pc EXCEPT ![p] = "update"]
    /\ UNCHANGED <<disk, tmp, origin, req, loc, now, nOps, nEdits, arg, res>>

\* A return that unlocks on success only.
ReturnUnlockOnSuccess(p, l, err, changed) ==
    /\ pc' = [pc EXCEPT ![p] = "done"]
    /\ mu' = IF err = "" THEN [mu EXCEPT ![loc[p].f] = 0] ELSE mu
    /\ loc' = [loc EXCEPT ![p] = [l EXCEPT !.err = err, !.changed = changed]]

\* A return of the File operation: the deferred s.mu.Unlock() runs.
Return(p, l, err, changed) ==
    /\ pc' = [pc EXCEPT ![p] = "done"]
    /\ mu' = [mu EXCEPT ![loc[p].f] = 0]
    /\ loc' = [loc EXCEPT ![p] = [l EXCEPT !.err = err, !.changed = changed]]

\* The File operation a handler is in, up to its call of updateRecords.
Plan(p) ==
    LET f == loc[p].f
        r == req[p]
    IN CASE r.op = "ddns" ->
              UpdateDDNSAddress(origin[f], loc[p].domainDot, r.addrs)
         [] r.op = "acme" ->
              UpdateACMEChallenge(origin[f], loc[p].domainDot, r.newToken, r.oldToken)
         [] OTHER ->
              ZMUpdateRecord(origin[f], loc[p].domainDot, r.typ, r.values)

\* An update that edits the entries read at startup instead of reading the
\* file again.
UpdateFromCache(p) ==
    /\ pc[p] = "update"
    /\ LET f == loc[p].f
           plan == Plan(p)
           ld == load(Zone(f), origin[f])
           ed == EditEntries(ld.ents, plan.matchers, plan.values, plan.allowNew)
           rf == Reformat(PrintEntries(ed.ents), <<>>, TRUE, now)
           l0 == [loc[p] EXCEPT !.pre = disk[f]]
           l1 == [l0 EXCEPT !.old = ld.ents]
           l2 == [l1 EXCEPT !.new = ed.ents]
       IN IF plan.err # "" THEN Return(p, l0, plan.err, FALSE)
          ELSE IF Len(plan.matchers) = 0 THEN Return(p, l0, "ErrNoMatchers", FALSE)
          ELSE IF ld.err # "" THEN Return(p, l0, ld.err, FALSE)
          ELSE IF ed.err # "" THEN Return(p, l1, ed.err, FALSE)
          ELSE IF ~ed.changed THEN Return(p, l2, "", FALSE)
          ELSE IF rf.err # "" THEN Return(p, l2, rf.err, TRUE)
          ELSE /\ pc' = [pc EXCEPT ![p] = "create"]
               /\ loc' = [loc EXCEPT ![p] = [l2 EXCEPT !.ret = rf.out, !.changed = TRUE]]
               /\ UNCHANGED mu
    /\ UNCHANGED <<disk, tmp, origin, req, now, nOps, nEdits, arg, res>>

\* The File operation from the lock to the call of AtomicWriteFile: build
\* the new entries, then updateRecords: load, splice, compare, reformat.
Update(p) ==
    /\ pc[p] = "update"
    /\ LET f == loc[p].f
           plan == Plan(p)
           ld == load(disk[f].content, origin[f])
           ed == EditEntries(ld.ents, plan.matchers, plan.values, plan.allowNew)
           rf == Reformat(PrintEntries(ed.ents), <<>>, TRUE, now)
           l0 == [loc[p] EXCEPT !.pre = disk[f]]
           l1 == [l0 EXCEPT !.old = ld.ents]
           l2 == [l1 EXCEPT !.new = ed.ents]
       IN IF plan.err # "" THEN Return(p, l0, plan.err, FALSE)
          ELSE IF Len(plan.matchers) = 0 THEN Return(p, l0, "ErrNoMatchers", FALSE)
          ELSE IF ld.err # "" THEN Return(p, l0, ld.err, FALSE)
          ELSE IF ed.err # "" THEN Return(p, l1, ed.err, FALSE)
          ELSE IF ~ed.changed THEN Return(p, l2, "", FALSE)
          ELSE IF rf.err # "" THEN Return(p, l2, rf.err, TRUE)
          ELSE /\ pc' = [pc EXCEPT ![p] = "create"]
               /\ loc' = [loc EXCEPT ![p] = [l2 EXCEPT !.ret = rf.out, !.changed = TRUE]]
               /\ UNCHANGED mu
    /\ UNCHANGED <<disk, tmp, origin, req, now, nOps, nEdits, arg, res>>

\* A writer that opens the zone file itself, truncating it.
CreateInPlace(p) ==
    /\ pc[p] = "create"
    /\ disk' = [disk EXCEPT ![loc[p].f].content = <<>>]
    /\ tmp' = [tmp EXCEPT ![p] = [exists |-> TRUE, content |-> <<>>, mode |-> "0600"]]
    /\ loc' = [loc EXCEPT ![p].mode = disk[loc[p].f].mode]
    /\ pc' = [pc EXCEPT ![p] = "write"]
    /\ UNCHANGED <<origin, mu, req, now, nOps, nEdits, arg, res>>

\* AtomicWriteFile: os.Stat for the mode, os.CreateTemp in the directory.
Create(p) ==
    /\ pc[p] = "create"
    /\ tmp' = [tmp EXCEPT ![p] = [exists |-> TRUE, content |-> <<>>, mode |-> "0600"]]
    /\ loc' = [loc EXCEPT ![p].mode = disk[loc[p].f].mode]
    /\ pc' = [pc EXCEPT ![p] = "write"]
    /\ UNCHANGED <<disk, origin, mu, req, now, nOps, nEdits, arg, res>>

\* A writer that leaves the temp file with the mode os.CreateTemp gave it.
WriteNoChmod(p) ==
    /\ pc[p] = "write"
    /\ tmp' = [tmp EXCEPT ![p].content = loc[p].ret]
    /\ pc' = [pc EXCEPT ![p] = "rename"]
    /\ UNCHANGED <<disk, origin, mu, req, loc, now, nOps, nEdits, arg, res>>

\* AtomicWriteFile: Chmod, Write, Sync and Close of the temp file.
Write(p) ==
    /\ pc[p] = "write"
    /\ tmp' = [tmp EXCEPT ![p].content = loc[p].ret, ![p].mode = loc[p].mode]
    /\ pc' = [pc EXCEPT ![p] = "rename"]
    /\ UNCHANGED <<disk, origin, mu, req, loc, now, nOps, nEdits, arg, res>>

\* AtomicWriteFile: os.Rename over the target, the deferred os.Remove finds
\* nothing; updateRecords and the File operation return.
Rename(p) ==
    /\ pc[p] = "rename"
    /\ disk' = [disk EXCEPT ![loc[p].f] =
                  [content |-> tmp[p].content, mode |-> tmp[p].mode]]
    /\ tmp' = [tmp EXCEPT ![p] = NoTmp]
    /\ Return(p, loc[p], "", TRUE)
    /\ UNCHANGED <<origin, req, now, nOps, nEdits, arg, res>>

\* An I/O error after which the temp file stays behind.
FaultLeavesTemp(p) ==
    /\ pc[p] \in {"update", "create", "write", "rename"}
    /\ Return(p, IF pc[p] = "update" THEN [loc[p] EXCEPT !.pre = disk[loc[p].f]]
                 ELSE loc[p],
              "io", loc[p].changed)
    /\ UNCHANGED <<disk, tmp, origin, req, now, nOps, nEdits, arg, res>>

\* An I/O error: os.ReadFile in load, or CreateTemp, Chmod, Write, Sync,
\* Close, Rename in AtomicWriteFile.  The deferred os.Remove deletes the
\* temp file, the error is returned up to the caller.
Fault(p) ==
    /\ pc[p] \in {"update", "create", "write", "rename"}
    /\ tmp' = [tmp EXCEPT ![p] = NoTmp]
    /\ Return(p, IF pc[p] = "update" THEN [loc[p] EXCEPT !.pre = disk[loc[p].f]]
                 ELSE loc[p],
              "io", loc[p].changed)
    /\ UNCHANGED <<disk, origin, req, now, nOps, nEdits, arg, res>>

\* The clock advances.
Tick ==
    /\ now < MaxTime
    /\ now' = now + 1
    /\ UNCHANGED <<disk, tmp, origin, mu, pc, req, loc, nOps, nEdits, arg, res>>

\* An out-of-band edit of a zone file: the origin the file declares is
\* changed ($ORIGIN argument, or the SOA owner when there is no $ORIGIN),
\* or a record is added at the end.
EditedOrigin == <<"o", ".">>

HasOriginDirective(text) ==
    \E i \in 1..Len(text) : text[i].k = "control" /\ text[i].cmd = "$ORIGIN"

ChangeOrigin(text) ==
    [i \in 1..Len(text) |->
        IF text[i].k = "control" /\ text[i].cmd = "$ORIGIN"
        THEN [text[i] EXCEPT !.values = <<EditedOrigin>>]
        ELSE IF text[i].k = "rr" /\ text[i].type = "SOA" /\ ~HasOriginDirective(text)
             THEN [text[i] EXCEPT !.owner = EditedOrigin]
             ELSE text[i]]

AddedRecord == RRLine(<<"x">>, <<>>, "IN", "A", <<<<"v4", "7">>>>, "line", 0)

EditKinds(f) == CASE f = 1 -> {"origin", "add"} [] f = 3 -> {"origin"} [] OTHER -> {}

ExternalEdit(f) ==
    /\ nEdits < MaxEdits
    /\ \E kind \in EditKinds(f) :
         disk' = [disk EXCEPT ![f].content =
                    IF kind = "origin" THEN ChangeOrigin(@)
                    ELSE Append(@, AddedRecord)]
    /\ loc' = [p \in Procs |->
                 IF loc[p].f = f /\ pc[p] \in {"create", "write", "rename"}
                 THEN [loc[p] EXCEPT !.stale = TRUE] ELSE loc[p]]
    /\ nEdits' = nEdits + 1
    /\ UNCHANGED <<tmp, origin, mu, pc, req, now, nOps, arg, res>>

\* The server process dies: the handlers and the locks are gone, the files
\* stay as they are.
Crash ==
    /\ \E p \in Procs : pc[p] # "dead"
    /\ pc' = [p \in Procs |-> "dead"]
    /\ mu' = [f \in Files |-> 0]
    /\ req' = [p \in Procs |-> NoReq]
    /\ loc' = [p \in Procs |-> NoLoc]
    /\ UNCHANGED <<disk, tmp, origin, now, nOps, nEdits, arg, res>>

\* One client that makes dynamic-DNS calls, one after the other.
Next ==
    \/ Start(1, Requests)
    \/ Lock(1)
    \/ Update(1)
    \/ Create(1)
    \/ Write(1)
    \/ Rename(1)
    \/ Fault(1)
    \/ \E f \in Files : ExternalEdit(f)
    \/ Tick
    \/ Crash

Spec == Init /\ [][Next]_vars

\* One client that makes ZM calls only.
ZmNext ==
    \/ Start(1, ZmRequests)
    \/ Lock(1)
    \/ Update(1)
    \/ Create(1)
    \/ Write(1)
    \/ Rename(1)
    \/ Fault(1)
    \/ \E f \in Files : ExternalEdit(f)
    \/ Tick
    \/ Crash

ZmSpec == Init /\ [][ZmNext]_vars

\* One client that makes ACME calls only.
AcmeRequests ==
    {ACMEReq(OriginE, <<"tok2">>, <<>>),
     ACMEReq(OriginE, <<"tok2">>, EmptyPlaceholder),
     ACMEReq(<<AcmeLabel, ".", "e">>, <<>>, <<"tok1">>),
     ACMEReq(NameAE, <<>>, <<>>),
     ACMEReq(<<"q", ".">>, <<"tok2">>, <<>>)}

AcmeNext ==
    \/ Start(1, AcmeRequests)
    \/ Lock(1)
    \/ Update(1)
    \/ Create(1)
    \/ Write(1)
    \/ Rename(1)
    \/ Fault(1)
    \/ \E f \in Files : ExternalEdit(f)
    \/ Tick
    \/ Crash

AcmeSpec == Init /\ [][AcmeNext]_vars

\* Two clients: the calls of one overlap the calls of the other.  Nothing
\* else touches the files and the clock stands still.
ConcRequests ==
    {DDNSReq(NameAE, <<Addr(4, 1)>>),
     ACMEReq(OriginE, <<"tok2">>, <<>>),
     ZMReq(NameAE, "MX", <<<<<<"2", "0">>>>>>),
     DDNSReq(NameABE, <<Addr(4, 1)>>)}

ConcNext ==
    \/ \E p \in Procs : Start(p, ConcRequests)
    \/ \E p \in Procs : Lock(p)
    \/ \E p \in Procs : Update(p)
    \/ \E p \in Procs : Create(p)
    \/ \E p \in Procs : Write(p)
    \/ \E p \in Procs : Rename(p)
    \/ \E p \in Procs : Fault(p)
    \/ Crash

ConcSpec == Init /\ [][ConcNext]_vars

\* ------------------------------------------------------------------------
\* Functions applied on their own
\* ------------------------------------------------------------------------
\* findZoneFile over every list of at most MaxZones origins: the origin of
\* a $ORIGIN directive or of a SOA owner as New records it, the root, and
\* the "@" of a SOA owner in a file without $ORIGIN.
DispatchOrigins ==
    {OriginE, OriginB, <<"b", "e", ".">>, <<"a", ".", "e", ".">>, <<Dot>>, <<"@">>}

\* The domain as DomainCtrl passes it, with its trailing dot.
DispatchDomains ==
    {OriginE, NameAE, OriginB, NameABE, <<"b", "e", ".">>,
     <<"b", "a", ".", "e", ".">>, <<"q", ".">>, <<Dot>>}

RECURSIVE SeqsUpTo(_, _)
SeqsUpTo(S, n) ==
    IF n = 0 THEN {<<>>}
    ELSE LET shorter == SeqsUpTo(S, n - 1)
         IN shorter \cup {Append(q, x) : q \in shorter, x \in S}

DispatchInit ==
    /\ New
    /\ arg \in {[NoArg EXCEPT !.fn = "findZoneFile", !.origins = o, !.domain = d] :
                   o \in SeqsUpTo(DispatchOrigins, MaxZones), d \in DispatchDomains}
    /\ res = NoRes

Dispatch ==
    /\ arg.fn = "findZoneFile"
    /\ ~res.set
    /\ res' = [NoRes EXCEPT !.set = TRUE,
                            !.file = findZoneFile(arg.origins, arg.domain)]
    /\ UNCHANGED <<ctrl, arg>>

DispatchNext == Dispatch

DispatchSpec == DispatchInit /\ [][DispatchNext]_vars

\* The two StripOrigin functions over every domain name of at most
\* MaxName bytes (labels of a and e, no empty label) and a few origins,
\* the empty one among them.
StripNames ==
    {n \in SeqsUpTo({"a", "e", Dot}, MaxName) :
        /\ Len(n) > 0
        /\ n = <<Dot>> \/ n[1] # Dot
        /\ \A i \in 1..(Len(n) - 1) : ~(n[i] = Dot /\ n[i + 1] = Dot)}

StripOrigins == {<<>>, OriginE, NameAE, <<"a", "e", ".">>, <<Dot>>}

StripInit ==
    /\ New
    /\ arg \in {[NoArg EXCEPT !.fn = "StripOrigin", !.origin = o, !.name = n] :
                   o \in StripOrigins, n \in StripNames}
    /\ res = NoRes

\* dnsfmt.StripOrigin(origin, name) and zone.StripOrigin(name, origin)
Strip ==
    /\ arg.fn = "StripOrigin"
    /\ ~res.set
    /\ res' = [NoRes EXCEPT !.set = TRUE,
                            !.short = StripOrigin(arg.origin, arg.name),
                            !.zshort = ZoneStripOrigin(arg.name, arg.origin)]
    /\ UNCHANGED <<ctrl, arg>>

StripNext == Strip

StripSpec == StripInit /\ [][StripNext]_vars

\* Reformat over every zone text of at most MaxLines lines drawn from
\* FormatLines that starts with a record that names its owner.
FormatLines ==
    {RRLine(<<"a">>, <<>>, "IN", "A", <<<<"v4", "1">>>>, "line", 0),
     RRLine(<<>>, <<>>, "IN", "A", <<<<"v4", "2">>>>, "line", 0),
     RRLine(<<"b">>, <<>>, "IN", "A", <<<<"v4", "3">>>>, "line", 0),
     RRLine(<<"b">>, <<"6", "0">>, "IN", "TXT", <<<<"tok1">>>>, "line", 0),
     RRLine(NameAE, <<"6", "0">>, "", "MX", <<<<"1", "0">>, <<"m", ".">> \o OriginE>>, "line", 0),
     RRLine(OriginE, <<>>, "IN", "SOA", SoaValues(OriginE, <<"5">>), "paren", 0),
     ControlLine("$ORIGIN", <<OriginE>>),
     CommentLine("; c"),
     BlankLine}

FormatInputs ==
    {t \in SeqsUpTo(FormatLines, MaxLines) :
        /\ Len(t) > 0
        /\ \A i \in 1..Len(t) :
              (t[i].k = "rr" /\ Len(t[i].owner) = 0)
                 => \E j \in 1..(i - 1) : t[j].k = "rr" /\ Len(t[j].owner) > 0}

FormatInit ==
    /\ New
    /\ arg \in {[NoArg EXCEPT !.fn = "Reformat", !.text = t] : t \in FormatInputs}
    /\ res = NoRes

\* dnsfmt.Reformat(data, nil, w, false), and Reformat again on what it
\* wrote.
Format ==
    /\ arg.fn = "Reformat"
    /\ ~res.set
    /\ LET first == Reformat(arg.text, <<>>, FALSE, now)
       IN res' = [NoRes EXCEPT !.set = TRUE, !.first = first,
                               !.second = IF first.err = ""
                                          THEN Reformat(first.out, <<>>, FALSE, now)
                                          ELSE first]
    /\ UNCHANGED <<ctrl, arg>>

FormatNext == Format

FormatSpec == FormatInit /\ [][FormatNext]_vars

\* Reformat of a zone with one TLSA record: certificate data of n hex digits,
\* written as one token or as two.
Hex(n) == [i \in 1..n |-> "b"]

TlsaLine(owner, n, cut) ==
    RRLine(owner, <<>>, "IN", "TLSA",
           <<<<"3">>, <<"1">>, <<"1">>>>
              \o (IF cut = 0 THEN <<Hex(n)>> ELSE <<Hex(cut), Hex(n - cut)>>),
           "line", 0)

TlsaInputs ==
    {<<ControlLine("$ORIGIN", <<OriginE>>), TlsaLine(owner, n, cut)>> :
        owner \in {NameAE, <<"a">>}, n \in 2..MaxHex, cut \in {0, 1}}

TlsaInit ==
    /\ New
    /\ arg \in {[NoArg EXCEPT !.fn = "Reformat", !.text = t] : t \in TlsaInputs}
    /\ res = NoRes

TlsaNext == Format

TlsaSpec == TlsaInit /\ [][TlsaNext]_vars

\* POST /cleanup with fqdn and value on a controller that manages the given
\* zone files: the handler calls UpdateACMEChallenge(ctx, fqdn, "", value),
\* which dispatches to a zone file and runs updateRecords on it.  The
\* result is the error returned and the content of the files afterwards.
CleanupRun(files, fqdn, value, clock) ==
    LET origins == [f \in 1..Len(files) |-> load(files[f], <<>>).origin]
        domainDot == DomainDot(ACMEReq(fqdn, <<>>, value))
        fl == findZoneFile(origins, domainDot)
    IN IF fl = 0 THEN [err |-> "ErrZoneNotFound", out |-> files]
       ELSE LET plan == UpdateACMEChallenge(origins[fl], domainDot, <<>>, value)
                ld == load(files[fl], origins[fl])
                ed == EditEntries(ld.ents, plan.matchers, plan.values, plan.allowNew)
                rf == Reformat(PrintEntries(ed.ents), <<>>, TRUE, clock)
            IN IF plan.err # "" THEN [err |-> plan.err, out |-> files]
               ELSE IF ld.err # "" THEN [err |-> ld.err, out |-> files]
               ELSE IF ed.err # "" THEN [err |-> ed.err, out |-> files]
               ELSE IF ~ed.changed THEN [err |-> "", out |-> files]
               ELSE IF rf.err # "" THEN [err |-> rf.err, out |-> files]
               ELSE [err |-> "", out |-> [files EXCEPT ![fl] = rf.out]]

\* A zone whose challenge record holds one token.
ZoneT ==
    <<ControlLine("$ORIGIN", <<OriginE>>),
      RRLine(<<"@">>, <<>>, "IN", "SOA", SoaValues(OriginE, <<"0">>), "paren", 0),
      RRLine(<<AcmeLabel>>, <<>>, "IN", "TXT", <<<<"tok1">>>>, "line", 0)>>

CleanupFqdns ==
    {OriginE, <<"e">>, <<AcmeLabel, ".", "e">>, NameAE, NameABE, <<"q", ".">>}

CleanupValues == {<<>>, <<"tok1">>, <<"tok2">>, EmptyPlaceholder}

CleanupInit ==
    /\ New
    /\ arg \in {[NoArg EXCEPT !.fn = "cleanup", !.origins = <<z, ZoneB>>,
                               !.domain = d, !.value = v, !.other = w] :
                   z \in {ZoneE, ZoneT}, d \in CleanupFqdns,
                   v \in CleanupValues, w \in CleanupValues}
    /\ res = NoRes

\* Two runs of POST /cleanup from one state, the requests differing in the
\* value field only.
Cleanup ==
    /\ arg.fn = "cleanup"
    /\ ~res.set
    /\ res' = [NoRes EXCEPT !.set = TRUE,
                            !.first = CleanupRun(arg.origins, arg.domain, arg.value, now),
                            !.second = CleanupRun(arg.origins, arg.domain, arg.other, now)]
    /\ UNCHANGED <<ctrl, arg>>

CleanupNext == Cleanup

CleanupSpec == CleanupInit /\ [][CleanupNext]_vars

\* New(zonefiles...) on a file system: a path names a file that exists or
\* not, with its content.  The loop loads the files in order and stops at
\* the first error; the controller is nil then.
NilCtrl == [nil |-> TRUE, files |-> <<>>]

\* A constructor that leaves out the files it cannot load.
RECURSIVE NewCtrlSkipBad(_, _, _)
NewCtrlSkipBad(zonefiles, i, ret) ==
    IF i > Len(zonefiles) THEN [err |-> "", ctl |-> [nil |-> FALSE, files |-> ret]]
    ELSE LET fl == zonefiles[i]
             ld == load(fl.content, <<>>)
         IN IF ~fl.exists \/ ld.err # ""
            THEN NewCtrlSkipBad(zonefiles, i + 1, ret)
            ELSE NewCtrlSkipBad(zonefiles, i + 1,
                                Append(ret, [path |-> fl.path, origin |-> ld.origin]))

RECURSIVE NewCtrl(_, _, _)
NewCtrl(zonefiles, i, ret) ==
    IF i > Len(zonefiles) THEN [err |-> "", ctl |-> [nil |-> FALSE, files |-> ret]]
    ELSE LET fl == zonefiles[i]
             ld == load(fl.content, <<>>)
         IN IF ~fl.exists THEN [err |-> "os.ErrNotExist", ctl |-> NilCtrl]
            ELSE IF ld.err # "" THEN [err |-> ld.err, ctl |-> NilCtrl]
            ELSE NewCtrl(zonefiles, i + 1,
                         Append(ret, [path |-> fl.path, origin |-> ld.origin]))

\* A zone file without an SOA record, and one that does not parse.
ZoneNoSoa ==
    <<ControlLine("$ORIGIN", <<OriginB>>),
      RRLine(<<"a">>, <<>>, "IN", "A", <<<<"v4", "9">>>>, "line", 0)>>

ZoneUnparsable ==
    <<RRLine(<<"@">>, <<>>, "IN", "SOA", <<Unbalanced>>, "paren", 0)>>

FsFile(path, exists, content) == [path |-> path, exists |-> exists, content |-> content]

FsFiles ==
    {FsFile("e.zone", TRUE, ZoneE), FsFile("b.zone", TRUE, ZoneB),
     FsFile("c.zone", TRUE, ZoneC), FsFile("not_existing_file.zone", FALSE, <<>>),
     FsFile("bad_no_soa.zone", TRUE, ZoneNoSoa),
     FsFile("bad_syntax.zone", TRUE, ZoneUnparsable)}

NewInit ==
    /\ New
    /\ arg \in {[NoArg EXCEPT !.fn = "New", !.files = z] :
                   z \in SeqsUpTo(FsFiles, MaxZones)}
    /\ res = NoRes

NewCall ==
    /\ arg.fn = "New"
    /\ ~res.set
    /\ LET r == NewCtrl(arg.files, 1, <<>>)
       IN res' = [NoRes EXCEPT !.set = TRUE, !.first = [err |-> r.err, out |-> <<>>],
                               !.ctl = r.ctl]
    /\ UNCHANGED <<ctrl, arg>>

NewNext == NewCall

NewSpec == NewInit /\ [][NewNext]_vars

\* ------------------------------------------------------------------------
\* The HTTP server: routes, the Basic Auth middleware and the handlers
\* ------------------------------------------------------------------------
StatusOK == 200
StatusBadRequest == 400
StatusUnauthorized == 401
StatusInternalServerError == 500

\* A user/password pair carried by a request header, or the header absent.
NoCred == [set |-> FALSE, user |-> "", pass |-> ""]
Cred(user, pass) == [set |-> TRUE, user |-> user, pass |-> pass]

\* A password check that looks at the user name only.
AuthenticateAnyPassword(user, password) == user = "u"

\* HTPasswd.Authenticate for a password file with the one user u:p.
Authenticate(user, password) == user = "u" /\ password = "p"

\* The controller call a handler makes, or none.
NoCall == [method |-> "", domain |-> "", addrs |-> <<>>, newToken |-> "", oldToken |-> ""]

Resp(status, wwwAuth, body, call) ==
    [status |-> status, wwwAuth |-> wwwAuth, body |-> body, call |-> call]

\* The status of the response to an error a handler returns: the status an
\* HTTPError carries, and 500 for an error that carries none.
SendError(err) == IF err = "bad request" THEN StatusBadRequest ELSE StatusInternalServerError

\* netip.ParseAddr on the texts of the model.
ParseAddr(t) ==
    CASE t = "1.2.3.4" -> [ok |-> TRUE, addr |-> Addr(4, 1)]
      [] t = "2001:db8::1" -> [ok |-> TRUE, addr |-> Addr(6, 1)]
      [] OTHER -> [ok |-> FALSE, addr |-> Addr(0, 0)]

RECURSIVE ParseAddrsLenient(_, _, _)
ParseAddrsLenient(texts, i, st) ==
    IF i > Len(texts) THEN st
    ELSE LET a == ParseAddr(texts[i])
         IN ParseAddrsLenient(texts, i + 1,
               IF a.ok THEN [st EXCEPT !.newAddrs = Append(@, a.addr)] ELSE st)

\* The loop over slices.Concat(myip, myipv6): the addresses parsed, and
\* whether some value failed to parse.
RECURSIVE ParseAddrs(_, _, _)
ParseAddrs(texts, i, st) ==
    IF i > Len(texts) THEN st
    ELSE LET a == ParseAddr(texts[i])
         IN ParseAddrs(texts, i + 1,
               IF a.ok THEN [st EXCEPT !.newAddrs = Append(@, a.addr)]
               ELSE [st EXCEPT !.err = TRUE])

\* GET /nic/update
NicUpdate(r) ==
    LET hns == r.hostname
        parsed == ParseAddrs(r.myip \o r.myipv6, 1, [err |-> FALSE, newAddrs |-> <<>>])
        newAddrs == IF Len(parsed.newAddrs) = 0 THEN <<r.remote>> ELSE parsed.newAddrs
    IN IF Len(hns) = 0 \/ hns[1] = ""
       THEN Resp(SendError("bad request"), "", "", NoCall)
       ELSE IF parsed.err
       THEN Resp(SendError("bad request"), "", "", NoCall)
       ELSE LET call == [NoCall EXCEPT !.method = "UpdateDDNSAddress",
                                       !.domain = hns[1], !.addrs = newAddrs]
            IN IF r.ctlErr # "" THEN Resp(SendError(r.ctlErr), "", "", call)
               ELSE Resp(StatusOK, "", "OK", call)

\* POST /acme/update, /present, /cleanup and /zm/update: read the JSON
\* body, call the controller, send the error or the answer.
PostHandler(r) ==
    IF ~r.body.ok THEN Resp(SendError("bad request"), "", "", NoCall)
    ELSE LET call ==
               CASE r.path = "/acme/update" ->
                      [NoCall EXCEPT !.method = "UpdateACMEChallenge",
                                     !.domain = r.body.fqdn, !.newToken = r.body.value]
                 [] r.path = "/present" ->
                      [NoCall EXCEPT !.method = "UpdateACMEChallenge",
                                     !.domain = r.body.fqdn, !.newToken = r.body.value,
                                     !.oldToken = "placeholder"]
                 [] r.path = "/cleanup" ->
                      [NoCall EXCEPT !.method = "UpdateACMEChallenge",
                                     !.domain = r.body.fqdn, !.oldToken = r.body.value]
                 [] OTHER ->
                      [NoCall EXCEPT !.method = "ZMUpdateRecord", !.domain = r.body.fqdn]
         IN IF r.ctlErr # "" THEN Resp(SendError(r.ctlErr), "", "", call)
            ELSE Resp(StatusOK, "", "json", call)

\* The handler registered for a path.
Handler(r) ==
    CASE r.path = "/health" -> Resp(StatusOK, "", "OK", NoCall)
      [] r.path = "/myip" -> Resp(StatusOK, "", "addr", NoCall)
      [] r.path = "/nic/update" -> NicUpdate(r)
      [] OTHER -> PostHandler(r)

\* The routes registered with option.Middleware(authMw).
WithAuthMw == {"/nic/update", "/acme/update", "/present", "/cleanup", "/zm/update"}

\* NewBasicAuthMiddleware: r.BasicAuth(), then ht.Authenticate; the next
\* handler on success, 401 with WWW-Authenticate otherwise.
BasicAuthMiddleware(r) ==
    IF r.authorization.set /\ Authenticate(r.authorization.user, r.authorization.pass)
    THEN Handler(r)
    ELSE Resp(StatusUnauthorized, "Basic realm=\"Restricted\"", "", NoCall)

\* The server's answer to a request.
ServeHTTP(r) == IF r.path \in WithAuthMw THEN BasicAuthMiddleware(r) ELSE Handler(r)

\* The requests of the model.  ctlErr is what the zone controller returns
\* when it is called: nil, an error wrapping ErrZoneNotFound, another error.
Paths == {"/health", "/myip", "/nic/update", "/acme/update", "/present", "/cleanup", "/zm/update"}

Creds == {NoCred, Cred("u", "p"), Cred("u", "x"), Cred("v", "p")}

CtlErrs == {"", "ErrZoneNotFound", "io"}

NoBody == [ok |-> FALSE, fqdn |-> "", value |-> ""]

HttpReq(path, authorization, xapi, hostname, myip, myipv6, body, ctlErr) ==
    [path |-> path, authorization |-> authorization, xapi |-> xapi,
     hostname |-> hostname, myip |-> myip, myipv6 |-> myipv6,
     remote |-> Addr(4, 7), body |-> body, ctlErr |-> ctlErr]

HttpRequests ==
    {HttpReq("/nic/update", c, NoCred, h, a, b, NoBody, e) :
        c \in Creds,
        h \in {<<>>, <<"">>, <<"h1">>, <<"h1", "h2">>, <<"", "h1">>},
        a \in SeqsUpTo({"1.2.3.4", "not-an-ip"}, MaxParams),
        b \in SeqsUpTo({"2001:db8::1", ""}, MaxParams),
        e \in CtlErrs}
    \cup
    {HttpReq(p, c, x, <<>>, <<>>, <<>>, b, e) :
        p \in Paths, c \in Creds, x \in {NoCred, Cred("u", "p")},
        b \in {NoBody, [ok |-> TRUE, fqdn |-> "h1", value |-> "tok1"]},
        e \in CtlErrs}

HttpInit ==
    /\ New
    /\ arg \in {[NoArg EXCEPT !.fn = "ServeHTTP", !.http = r] : r \in HttpRequests}
    /\ res = NoRes

Serve ==
    /\ arg.fn = "ServeHTTP"
    /\ ~res.set
    /\ res' = [NoRes EXCEPT !.set = TRUE, !.resp = ServeHTTP(arg.http)]
    /\ UNCHANGED <<ctrl, arg>>

HttpNext == Serve

HttpSpec == HttpInit /\ [][HttpNext]_vars

\* One update operation run from its dispatch to its return, without
\* interleaving: DomainCtrl dispatches the request to a zone file, the File
\* operation builds matchers and values, updateRecords loads, splices,
\* compares, and on a change reformats and writes.  The result holds the
\* error, the changed flag, whether AtomicWriteFile was called, the entries
\* loaded and computed, and the zone files afterwards.
RunUpdate(origins, files, r, clock) ==
    LET domainDot == DomainDot(r)
        fl == findZoneFile(origins, domainDot)
        ret(err, changed, wrote, old, new, out) ==
            [err |-> err, changed |-> changed, wrote |-> wrote,
             old |-> old, new |-> new, out |-> out]
    IN IF fl = 0 THEN ret("ErrZoneNotFound", FALSE, FALSE, <<>>, <<>>, files)
       ELSE LET plan == CASE r.op = "ddns" ->
                               UpdateDDNSAddress(origins[fl], domainDot, r.addrs)
                          [] r.op = "acme" ->
                               UpdateACMEChallenge(origins[fl], domainDot,
                                                   r.newToken, r.oldToken)
                          [] OTHER ->
                               ZMUpdateRecord(origins[fl], domainDot, r.typ, r.values)
                ld == load(files[fl], origins[fl])
                ed == EditEntries(ld.ents, plan.matchers, plan.values, plan.allowNew)
                rf == Reformat(PrintEntries(ed.ents), <<>>, TRUE, clock)
            IN IF plan.err # "" THEN ret(plan.err, FALSE, FALSE, <<>>, <<>>, files)
               ELSE IF Len(plan.matchers) = 0
               THEN ret("ErrNoMatchers", FALSE, FALSE, <<>>, <<>>, files)
               ELSE IF ld.err # "" THEN ret(ld.err, FALSE, FALSE, <<>>, <<>>, files)
               ELSE IF ed.err # "" THEN ret(ed.err, FALSE, FALSE, ld.ents, <<>>, files)
               ELSE IF ~ed.changed THEN ret("", FALSE, FALSE, ld.ents, ed.ents, files)
               ELSE IF rf.err # "" THEN ret(rf.err, TRUE, FALSE, ld.ents, ed.ents, files)
               ELSE ret("", TRUE, TRUE, ld.ents, ed.ents, [files EXCEPT ![fl] = rf.out])

StartupOrigins(files) == [f \in 1..Len(files) |-> load(files[f], <<>>).origin]

\* The LEGO calls: /present passes the placeholder as old token, /cleanup
\* the value to remove.
LegoRequests ==
    {ACMEReq(OriginE, <<"tok2">>, EmptyPlaceholder),
     ACMEReq(OriginE, <<>>, <<"tok1">>),
     ACMEReq(OriginB, <<"tok1">>, EmptyPlaceholder)}

RepeatRequests == Requests \cup ZmRequests \cup AcmeRequests \cup LegoRequests

RepeatInit ==
    /\ New
    /\ arg \in {[NoArg EXCEPT !.fn = "repeat", !.files = <<z, ZoneB, ZoneC>>,
                               !.http = r, !.clock = t] :
                   z \in {ZoneE, ZoneT}, r \in RepeatRequests, t \in 1..MaxTime}
    /\ res = NoRes

\* The same update operation made twice in a row on a controller, the
\* second one later or within the same second, on the files the first one
\* left.
Repeat ==
    /\ arg.fn = "repeat"
    /\ res.file \in {0, 1}
    /\ LET run == RunUpdate(StartupOrigins(arg.files),
                            IF res.file = 0 THEN arg.files ELSE res.first.out,
                            arg.http,
                            IF res.file = 0 THEN now ELSE arg.clock)
       IN res' = IF res.file = 0
                 THEN [res EXCEPT !.file = 1, !.first = run]
                 ELSE [res EXCEPT !.file = 2, !.set = TRUE, !.second = run]
    /\ UNCHANGED <<ctrl, arg>>

RepeatNext == Repeat

RepeatSpec == RepeatInit /\ [][RepeatNext]_vars

\* Reformat of a zone with one record of a type whose values the function
\* indexes, with every number of value tokens up to MaxValues.
ArityTypes ==
    {"SOA", "SRV", "MX", "RRSIG", "NS", "CNAME", "PTR", "NSEC",
     "DS", "CDS", "DNSKEY", "CDNSKEY", "TLSA", "TXT", "CAA", "A"}

ArityValues(type, n) ==
    IF type = "SOA"
    THEN SubSeq(SoaValues(OriginE, <<"5">>) \o [i \in 1..MaxValues |-> <<"1">>], 1, n)
    ELSE [i \in 1..n |-> <<"1">>]

ArityInputs ==
    {<<ControlLine("$ORIGIN", <<OriginE>>),
       RRLine(<<"a">>, <<>>, "IN", type, ArityValues(type, n), "line", 0)>> :
        type \in ArityTypes, n \in 0..MaxValues}
    \cup {<<RRLine(<<"a">>, <<>>, "IN", "A", <<Unbalanced>>, "line", 0)>>}

ArityInit ==
    /\ New
    /\ arg \in {[NoArg EXCEPT !.fn = "Reformat", !.text = t] : t \in ArityInputs}
    /\ res = NoRes

ArityNext == Format

AritySpec == ArityInit /\ [][ArityNext]_vars

\* ------------------------------------------------------------------------
\* Properties
\* ------------------------------------------------------------------------
\* The entries a text holds, every owner written out and relative to
\* sorigin, as File.load hands them to updateRecords.
EntriesOf(text, sorigin) ==
    LET zf == Load(text)
    IN LoadLoop(zf, 1, sorigin,
                [origin |-> <<>>, prevDomain |-> <<>>, ok |-> FALSE,
                 soa |-> <<>>, ents |-> zf]).ents

\* The origin a text declares: its $ORIGIN, else the owner of its SOA.
DetectOrigin(text) == load(text, <<>>).origin

ShortDomain(p) == ZoneStripOrigin(loc[p].domainDot, origin[loc[p].f])

\* A call of operation op that returned nil.
Succeeded(p, op) ==
    pc[p] = "done" /\ req[p].op = op /\ loc[p].f # 0 /\ loc[p].err = ""

\* The entries of the zone when the call returned nil.
PostEntries(p) ==
    IF loc[p].changed THEN EntriesOf(loc[p].ret, origin[loc[p].f]) ELSE loc[p].old

IsRec(e, owner, types) == e.k = "rr" /\ e.owner = owner /\ e.type \in types

RECURSIVE KeepAt(_, _, _)
KeepAt(s, I, i) ==
    IF i > Len(s) THEN <<>>
    ELSE (IF i \in I THEN <<s[i]>> ELSE <<>>) \o KeepAt(s, I, i + 1)

RecsAt(ents, owner, types) ==
    KeepAt(ents, {i \in 1..Len(ents) : IsRec(ents[i], owner, types)}, 1)

OthersThan(ents, owner, types) ==
    KeepAt(ents, {i \in 1..Len(ents) : ~IsRec(ents[i], owner, types)}, 1)

TypeAndValues(recs) == [i \in 1..Len(recs) |-> <<recs[i].type, recs[i].values>>]

Count(s, x) == Cardinality({i \in 1..Len(s) : s[i] = x})

SameBag(s, t) ==
    /\ Len(s) = Len(t)
    /\ \A i \in 1..Len(s) : Count(s, s[i]) = Count(t, s[i])

\* One record per supplied address: A for IPv4, AAAA for IPv6.
SuppliedRecords(addrs) ==
    [i \in 1..Len(addrs) |->
        <<IF Is4(addrs[i]) THEN "A" ELSE "AAAA", <<AddrString(addrs[i])>>>>]

FamilyTypes(addrs) ==
    {IF Is4(addrs[i]) THEN "A" ELSE "AAAA" : i \in 1..Len(addrs)}

\* Comment blocks taken apart, one entry per comment line.
RECURSIVE Flat(_)
Flat(ents) ==
    IF Len(ents) = 0 THEN <<>>
    ELSE (IF Head(ents).k = "comment"
          THEN [j \in 1..Len(Head(ents).text) |-> CommentEntry(<<Head(ents).text[j]>>)]
          ELSE <<Head(ents)>>)
         \o Flat(Tail(ents))

\* Entry b is entry a written again by the reformatter: the same owner,
\* type and meaning; names under origin o relative, SOA times in other
\* units, the SOA serial another one, the class written out, the TTL kept
\* or left out.
Rerendered(a, b, o) ==
    /\ a.k = b.k /\ a.text = b.text /\ a.cmd = b.cmd
    /\ a.owner = b.owner /\ a.type = b.type
    /\ b.class = (IF a.k = "rr" /\ a.class = "" THEN "IN" ELSE a.class)
    /\ b.ttl \in {a.ttl, NoTTL}
    /\ Len(a.values) = Len(b.values)
    /\ IF a.k = "rr" /\ a.type = "SOA"
       THEN \A i \in 1..Len(a.values) :
              CASE i <= 2 -> StripOrigin(o, a.values[i]) = StripOrigin(o, b.values[i])
                [] i = 3 -> IsDigits(b.values[i])
                [] OTHER -> HumanToSeconds(a.values[i]) = HumanToSeconds(b.values[i])
       ELSE IF a.k = "rr"
       THEN StripTargets(a.type, a.values, o) = StripTargets(b.type, b.values, o)
       ELSE a.values = b.values

AllRerendered(old, post, o) ==
    /\ Len(Flat(old)) = Len(Flat(post))
    /\ \A i \in 1..Len(Flat(old)) : Rerendered(Flat(old)[i], Flat(post)[i], o)

\* The serial of the SOA record of a text.
SerialOf(text) ==
    LET zf == Load(text)
        i == CHOOSE j \in 1..Len(zf) : zf[j].k = "rr" /\ zf[j].type = "SOA"
    IN DigitsToNat(zf[i].values[3])

\* C1 as stated: after UpdateDDNSAddress returns nil the A and AAAA records
\* at the owner are exactly one per supplied address, and every other entry
\* of the zone is what it was, in the same order.
C1_AsStated ==
    \A p \in Procs :
        Succeeded(p, "ddns") =>
            /\ SameBag(TypeAndValues(RecsAt(PostEntries(p), ShortDomain(p), {"A", "AAAA"})),
                       SuppliedRecords(req[p].addrs))
            /\ OthersThan(PostEntries(p), ShortDomain(p), {"A", "AAAA"})
                 = OthersThan(loc[p].old, ShortDomain(p), {"A", "AAAA"})

\* C1: after UpdateDDNSAddress returns nil, the records at the owner of the
\* types of the supplied families (A for IPv4, AAAA for IPv6) are exactly
\* one per supplied address; every other entry, the owner's records of a
\* family that was not supplied among them, is still there in the same
\* order with the same owner, type and meaning, written again by the
\* reformatter when the file was rewritten.
C1_DDNSReplacesSuppliedFamilies ==
    \A p \in Procs :
        Succeeded(p, "ddns") =>
            LET types == FamilyTypes(req[p].addrs)
            IN /\ SameBag(TypeAndValues(RecsAt(PostEntries(p), ShortDomain(p), types)),
                          SuppliedRecords(req[p].addrs))
               /\ loc[p].changed =>
                  AllRerendered(OthersThan(loc[p].old, ShortDomain(p), types),
                                OthersThan(PostEntries(p), ShortDomain(p), types),
                                origin[loc[p].f])

\* An IPv4-only update was written and the owner's AAAA record is still
\* in the zone.
C1_Witness ==
    /\ Succeeded(1, "ddns") /\ loc[1].changed
    /\ FamilyTypes(req[1].addrs) = {"A"}
    /\ Len(RecsAt(loc[1].old, ShortDomain(1), {"AAAA"})) > 0
    /\ RecsAt(PostEntries(1), ShortDomain(1), {"AAAA"})
         = RecsAt(loc[1].old, ShortDomain(1), {"AAAA"})
    /\ TypeAndValues(RecsAt(PostEntries(1), ShortDomain(1), {"A"}))
         = SuppliedRecords(req[1].addrs)

InCritical(p) == pc[p] \in {"update", "create", "write", "rename"}

\* C2: two calls on the same file never overlap between lock and unlock,
\* and a call that writes the file writes over exactly the contents it
\* read: the second call to take the lock builds on what the first wrote.
C2_Serialized ==
    /\ \A p, q \in Procs :
         (p # q /\ InCritical(p) /\ InCritical(q)) => loc[p].f # loc[q].f
    /\ \A p \in Procs :
         pc[p] \in {"create", "write", "rename"} => disk[loc[p].f] = loc[p].pre

\* Two different calls went for the same file; the first has written, the
\* second is about to rename a file built on what the first wrote.
C2_Witness ==
    /\ Succeeded(1, req[1].op) /\ loc[1].changed
    /\ pc[2] = "rename" /\ loc[2].f = loc[1].f /\ req[2] # req[1]
    /\ loc[2].pre.content = loc[1].ret

\* C3: when a call that took the lock returns an error, the step that
\* returns leaves every zone file as it is, the zone file of the call holds
\* what the call read (unless someone else edited it meanwhile), and the
\* temp file of the call is gone.
C3_FailureLeavesFile ==
    [][\A p \in Procs :
          (InCritical(p) /\ pc'[p] = "done" /\ loc'[p].err # "")
             => /\ disk' = disk
                /\ ~tmp'[p].exists
                /\ (loc'[p].stale \/ disk'[loc[p].f] = loc'[p].pre)]_vars

\* A call failed after its temp file was created: the zone file is what
\* the call read and no temp file is left.
C3_Witness ==
    /\ pc[1] = "done" /\ loc[1].err = "io"
    /\ loc[1].ret # <<>> /\ loc[1].mode # ""
    /\ ~tmp[1].exists
    /\ disk[loc[1].f] = loc[1].pre

\* C4: the contents of a zone file change only by an out-of-band edit or
\* by the rename of a finished temp file, which puts the complete new
\* contents in the place of the old ones in one step; a crash changes
\* nothing.
C4_ReaderSeesWhole ==
    [][\A f \in Files :
          disk'[f] # disk[f]
             => \/ nEdits' # nEdits
                \/ \E p \in Procs :
                     /\ pc[p] = "rename" /\ loc[p].f = f
                     /\ loc[p].ret # <<>>
                     /\ disk'[f].content = loc[p].ret]_vars

\* The process died while a temp file was being written: the zone file
\* still holds the contents from before the update.
C4_Witness ==
    /\ pc[1] = "dead" /\ tmp[1].exists /\ tmp[1].content = <<>>
    /\ nEdits = 0
    /\ disk[1].content = ZoneE

\* An origin matches a domain: it equals it, or "." and the origin end it.
OriginMatches(domain, o) == domain = o \/ HasSuffix(domain, <<Dot>> \o o)

\* C5: the file chosen is one whose origin equals the domain or is a
\* suffix of it at a label boundary, none of the matching origins is
\* longer than the chosen one, and no file is chosen exactly when no
\* origin matches.
C5_LongestLabelSuffix ==
    (res.set /\ arg.fn = "findZoneFile") =>
        LET matching == {j \in 1..Len(arg.origins) :
                           OriginMatches(arg.domain, arg.origins[j])}
        IN /\ (res.file = 0) <=> (matching = {})
           /\ res.file # 0 =>
                /\ res.file \in matching
                /\ \A j \in matching :
                     Len(arg.origins[j]) <= Len(arg.origins[res.file])

\* A file is chosen by a label-aligned match although a longer origin is a
\* suffix of the domain in bytes; that one is passed over.
C5_Witness ==
    /\ res.set /\ arg.fn = "findZoneFile" /\ res.file # 0
    /\ OriginMatches(arg.domain, arg.origins[res.file])
    /\ \E j \in 1..Len(arg.origins) :
         /\ HasSuffix(arg.domain, arg.origins[j])
         /\ ~OriginMatches(arg.domain, arg.origins[j])
         /\ Len(arg.origins[j]) > Len(arg.origins[res.file])

StoredToken(r) == IF r.newToken = <<>> THEN EmptyPlaceholder ELSE r.newToken

\* C7: after UpdateACMEChallenge returns nil: without an old token the
\* zone holds exactly one TXT record at the owner, with the new token or
\* the placeholder; with an old token the TXT records at the owner are
\* those it had whose value is not the old token, each as it was, and one
\* TXT record with the new token or the placeholder.
C7_ACMEModes ==
    \A p \in Procs :
        Succeeded(p, "acme") =>
            LET short == ShortDomain(p)
                was == TypeAndValues(RecsAt(loc[p].old, short, {"TXT"}))
                is == TypeAndValues(RecsAt(PostEntries(p), short, {"TXT"}))
                new == <<"TXT", <<StoredToken(req[p])>>>>
                kept == KeepAt(was, {i \in 1..Len(was) :
                                       was[i][2] # <<req[p].oldToken>>}, 1)
            IN IF req[p].oldToken = <<>>
               THEN is = <<new>>
               ELSE SameBag(is, kept \o <<new>>)

\* A call with an old token was written: the record with the old token
\* was replaced, another TXT record at the owner stayed.
C7_Witness ==
    /\ Succeeded(1, "acme") /\ loc[1].changed
    /\ req[1].oldToken # <<>>
    /\ \E i \in 1..Len(loc[1].old) :
         /\ IsRec(loc[1].old[i], ShortDomain(1), {"TXT"})
         /\ loc[1].old[i].values = <<req[1].oldToken>>
    /\ \E i \in 1..Len(loc[1].old) :
         /\ IsRec(loc[1].old[i], ShortDomain(1), {"TXT"})
         /\ loc[1].old[i].values # <<req[1].oldToken>>
         /\ \E j \in 1..Len(PostEntries(1)) :
              /\ IsRec(PostEntries(1)[j], ShortDomain(1), {"TXT"})
              /\ PostEntries(1)[j].values = loc[1].old[i].values

\* The call is one that reads the zone file: its arguments gave a plan.
PlanOK(p) == Plan(p).err = "" /\ Len(Plan(p).matchers) > 0

\* C8: the origin recorded for a file never changes, and a call that
\* reads a file declaring another origin than the recorded one returns
\* ErrOriginChanged in that step, writing nothing.
C8_OriginChangeRejected ==
    [][/\ origin' = origin
       /\ \A p \in Procs :
            (/\ pc[p] = "update" /\ pc'[p] \notin {"update", "dead"}
             /\ PlanOK(p)
             /\ loc'[p].err # "io"
             /\ DetectOrigin(disk[loc[p].f].content) # origin[loc[p].f])
               => /\ pc'[p] = "done"
                  /\ loc'[p].err = "ErrOriginChanged"
                  /\ disk' = disk
                  /\ ~tmp'[p].exists]_vars

\* The $ORIGIN of the first file was edited, a later call returned
\* ErrOriginChanged, the file is as edited and the recorded origin is the
\* one of the start.
C8_Witness ==
    /\ pc[1] = "done" /\ loc[1].f = 1 /\ loc[1].err = "ErrOriginChanged"
    /\ disk[1].content = ChangeOrigin(ZoneE)
    /\ DetectOrigin(disk[1].content) = EditedOrigin
    /\ origin[1] = OriginE

\* C9 as stated: a call that rewrote the zone file wrote a SOA serial
\* greater than the one it read.
C9_SerialIncreases ==
    \A p \in Procs :
        (pc[p] = "done" /\ loc[p].f # 0 /\ loc[p].err = "" /\ loc[p].changed)
            => SerialOf(loc[p].ret) > SerialOf(loc[p].pre.content)

\* C10: with incrementSerial false, Reformat applied to its own output
\* succeeds and writes the same bytes again.
C10_ReformatIdempotent ==
    (res.set /\ arg.fn = "Reformat" /\ res.first.err = "")
        => (res.second.err = "" /\ res.second.out = res.first.out)

\* A name read under an origin: "@" is the origin, a name without a
\* trailing dot has the origin appended.
Attach(name, o) ==
    IF o = <<>> \/ Len(name) = 0 THEN name
    ELSE IF name = <<"@">> THEN o
    ELSE IF name[Len(name)] = Dot THEN name
    ELSE name \o <<Dot>> \o o

\* The value tokens of a record as a reader understands them: the name
\* operands Reformat makes relative read under the origin, the SOA times
\* in seconds.
ReadValues(type, values, o) ==
    [i \in 1..Len(values) |->
        CASE type = "SOA" /\ i <= 2 -> Attach(values[i], o)
          [] type = "SOA" /\ i >= 4 -> NatToDigits(HumanToSeconds(values[i]))
          [] type = "SRV" /\ i = 4 -> Attach(values[i], o)
          [] type = "RRSIG" /\ i = 8 -> Attach(values[i], o)
          [] type = "MX" /\ i = 2 -> Attach(values[i], o)
          [] type \in {"PTR", "NS", "CNAME", "NSEC"} /\ i = 1 -> Attach(values[i], o)
          [] OTHER -> values[i]]

\* The records of a parsed text as a reader understands them: the origin
\* is that of the last $ORIGIN, or of the first SOA owner when there was
\* none; a blank owner is the previous owner; a missing class is IN.
RECURSIVE ReadRecords(_, _, _, _)
ReadRecords(ents, i, o, prev) ==
    IF i > Len(ents) THEN <<>>
    ELSE LET e == ents[i] IN
         IF e.k = "comment" THEN ReadRecords(ents, i + 1, o, prev)
         ELSE IF e.k = "control"
         THEN ReadRecords(ents, i + 1,
                          IF e.cmd = "$ORIGIN" THEN Fqdn(e.values[1]) ELSE o, prev)
         ELSE LET own == IF Len(e.owner) = 0 THEN prev ELSE Attach(e.owner, o)
                  o1 == IF e.type = "SOA" /\ o = <<>> THEN Fqdn(own) ELSE o
              IN <<[owner |-> own, ttl |-> e.ttl,
                    class |-> IF e.class = "" THEN "IN" ELSE e.class,
                    type |-> e.type,
                    values |-> ReadValues(e.type, e.values, o1)]>>
                 \o ReadRecords(ents, i + 1, o1, own)

\* C11: when Reformat succeeds, its output parses to the records of the
\* input, one for one and in order: the same owner once the origin is
\* attached again, the same type, class, TTL and values.
C11_RoundTrip ==
    (res.set /\ arg.fn = "Reformat" /\ res.first.err = "")
        => ReadRecords(Load(res.first.out), 1, <<>>, <<>>)
             = ReadRecords(Load(arg.text), 1, <<>>, <<>>)

\* What C12 says StripOrigin returns.
Stripped(o, name) ==
    IF o # <<>> /\ name = o THEN <<"@">>
    ELSE IF o # <<>> /\ HasSuffix(name, <<Dot>> \o o) /\ Len(name) > Len(o) + 1
    THEN SubSeq(name, 1, Len(name) - Len(o) - 1)
    ELSE name

\* C12: both StripOrigin functions return "@" for the origin itself, the
\* label for label + "." + origin, and the name unchanged in every other
\* case, the empty origin and an origin that is a suffix only in bytes
\* among them; the origin attached to the result gives the name again.
C12_StripOrigin ==
    (res.set /\ arg.fn = "StripOrigin")
        => /\ res.short = Stripped(arg.origin, arg.name)
           /\ res.zshort = Stripped(arg.origin, arg.name)
           /\ Attach(res.short, arg.origin) = arg.name
           /\ Attach(res.zshort, arg.origin) = arg.name

\* The owner of the record on line i of a text: its owner column, or for a
\* blank column the owner of the closest record above that has one.
RECURSIVE OwnerAt(_, _)
OwnerAt(text, i) ==
    IF i < 1 THEN <<>>
    ELSE IF text[i].k = "rr" /\ Len(text[i].owner) > 0 THEN text[i].owner
    ELSE OwnerAt(text, i - 1)

\* Lines i < j hold two records with nothing but blank lines between them.
Neighbours(text, i, j) ==
    /\ i < j /\ text[i].k = "rr" /\ text[j].k = "rr"
    /\ \A m \in (i + 1)..(j - 1) : text[m].k = "blank"

RecordsOf(text, owner) ==
    Cardinality({i \in 1..Len(text) : text[i].k = "rr" /\ OwnerAt(text, i) = owner})

\* C13: in the output of Reformat, between two records that follow one
\* another with different owners there is exactly one blank line when the
\* owner of the first has more than one record or the two types differ,
\* and none when it has a single record of the type of the second; between
\* records of one owner there is never a blank line.
C13_GroupingBlankLines ==
    (res.set /\ arg.fn = "Reformat" /\ res.first.err = "")
        => LET out == res.first.out IN
           \A i, j \in 1..Len(out) :
              Neighbours(out, i, j) =>
                 IF OwnerAt(out, i) = OwnerAt(out, j)
                 THEN j = i + 1
                 ELSE IF RecordsOf(out, OwnerAt(out, i)) > 1
                         \/ out[i].type # out[j].type
                      THEN j = i + 2
                      ELSE j = i + 1

\* C14: Reformat prints every TLSA record on one line, with all the values
\* it was given on that line, whatever the length of the certificate data.
C14_TLSAOneLine ==
    (res.set /\ arg.fn = "Reformat" /\ res.first.err = "")
        => \A i \in 1..Len(arg.text) :
              (arg.text[i].k = "rr" /\ arg.text[i].type = "TLSA")
                 => \E j \in 1..Len(res.first.out) :
                       /\ res.first.out[j].k = "rr"
                       /\ res.first.out[j].type = "TLSA"
                       /\ res.first.out[j].layout = "line"
                       /\ res.first.out[j].values = arg.text[i].values

\* C19: POST /cleanup does not look at the value field: two cleanup requests
\* for one fqdn on one state of the zone files leave the same zone files,
\* whatever values they carry.
C19_CleanupIgnoresValue ==
    (res.set /\ arg.fn = "cleanup") => res.first.out = res.second.out

HasSoa(text) == \E i \in 1..Len(text) : text[i].k = "rr" /\ text[i].type = "SOA"

Loadable(fl) == fl.exists /\ ParseOK(fl.content) /\ HasSoa(fl.content)

\* The sentinel the error of an unloadable file wraps.
FileError(fl) ==
    IF ~fl.exists THEN "os.ErrNotExist"
    ELSE IF ~ParseOK(fl.content) THEN "parse"
    ELSE "ErrSoaNotFound"

FirstBad(zonefiles) ==
    CHOOSE i \in 1..Len(zonefiles) :
        /\ ~Loadable(zonefiles[i])
        /\ \A j \in 1..(i - 1) : Loadable(zonefiles[j])

AllLoaded(zonefiles) ==
    /\ res.first.err = ""
    /\ ~res.ctl.nil
    /\ Len(res.ctl.files) = Len(zonefiles)
    /\ \A i \in 1..Len(zonefiles) :
          /\ res.ctl.files[i].path = zonefiles[i].path
          /\ res.ctl.files[i].origin # <<>>

\* C20 as stated: New returns a controller for exactly the given files, in
\* order and each with an origin, only if every file exists, parses and has
\* an SOA record; with any file missing the error wraps os.ErrNotExist, with
\* any file lacking an SOA record it wraps ErrSoaNotFound, and no failure
\* returns a controller.
C20_AsStated ==
    (res.set /\ arg.fn = "New")
        => LET zs == arg.files IN
           IF \A i \in 1..Len(zs) : Loadable(zs[i])
           THEN AllLoaded(zs)
           ELSE /\ res.ctl.nil
                /\ res.first.err # ""
                /\ (\E i \in 1..Len(zs) : ~zs[i].exists)
                      => res.first.err = "os.ErrNotExist"
                /\ (\E i \in 1..Len(zs) :
                        zs[i].exists /\ ParseOK(zs[i].content) /\ ~HasSoa(zs[i].content))
                      => res.first.err = "ErrSoaNotFound"

\* C20: New returns a controller for exactly the given files, in order and
\* each with an origin, only if every file exists, parses and has an SOA
\* record; otherwise it returns no controller and the error of the first
\* file in the order given that cannot be loaded: os.ErrNotExist for a
\* missing file, ErrSoaNotFound for a file without SOA record.
C20_NewAllOrNothing ==
    (res.set /\ arg.fn = "New")
        => LET zs == arg.files IN
           IF \A i \in 1..Len(zs) : Loadable(zs[i])
           THEN AllLoaded(zs)
           ELSE /\ res.ctl.nil
                /\ res.first.err = FileError(zs[FirstBad(zs)])

\* New has loaded a file and fails on a later one that has no SOA record,
\* with a missing file still to come.
C20_Witness ==
    /\ res.set /\ arg.fn = "New"
    /\ Len(arg.files) = 3
    /\ Loadable(arg.files[1])
    /\ arg.files[2].path = "bad_no_soa.zone"
    /\ ~arg.files[3].exists
    /\ res.ctl.nil
    /\ res.first.err = "ErrSoaNotFound"

Served == res.set /\ arg.fn = "ServeHTTP"

\* The htpasswd user of the model, sent in some header.
ValidUser(c) == c = Cred("u", "p")

Rejected(resp) ==
    /\ resp.status = 401
    /\ resp.wwwAuth = "Basic realm=\"Restricted\""
    /\ resp.call = NoCall

\* C15 as stated: on every endpoint other than /health a request without
\* valid credentials gets 401 with WWW-Authenticate: Basic
\* realm="Restricted", and no handler or controller call runs.
C15_AsStated ==
    (Served /\ arg.http.path # "/health"
            /\ ~ValidUser(arg.http.authorization) /\ ~ValidUser(arg.http.xapi))
        => Rejected(res.resp)

\* C15: on every endpoint other than /health and /myip a request without
\* valid credentials gets 401 with WWW-Authenticate: Basic
\* realm="Restricted", and no handler or controller call runs.
C15_AuthRequired ==
    (Served /\ arg.http.path \notin {"/health", "/myip"}
            /\ ~ValidUser(arg.http.authorization) /\ ~ValidUser(arg.http.xapi))
        => Rejected(res.resp)

\* A request for /cleanup with a well-formed body and the right user name
\* but a wrong password has been answered.
C15_Witness ==
    /\ Served
    /\ arg.http.path = "/cleanup"
    /\ arg.http.body.ok
    /\ arg.http.authorization = Cred("u", "x")
    /\ res.resp.status = 401

\* C16: when the controller returns an error wrapping ErrZoneNotFound for
\* an authenticated /nic/update request, the response status is 404.
C16_ZoneNotFoundIs404 ==
    (Served /\ arg.http.path = "/nic/update"
            /\ res.resp.call.method = "UpdateDDNSAddress"
            /\ arg.http.ctlErr = "ErrZoneNotFound")
        => res.resp.status = 404

RECURSIVE AllParse(_, _)
AllParse(texts, i) ==
    i > Len(texts) \/ (texts[i] \in {"1.2.3.4", "2001:db8::1"} /\ AllParse(texts, i + 1))

AddrOf(t) == IF t = "1.2.3.4" THEN Addr(4, 1) ELSE Addr(6, 1)

C18_ApiKeyHeaders ==
    (Served /\ arg.http.path = "/acme/update" /\ arg.http.body.ok
            /\ ValidUser(arg.http.xapi) /\ arg.http.authorization = NoCred)
        => /\ res.resp.status # 401
           /\ res.resp.call.method = "UpdateACMEChallenge"

\* C21: when AtomicWriteFile succeeds on a zone file, the file holds exactly
\* the data written and the permission bits it had before the call; every
\* changed update made through the controller ends in such a step.
C21_WritePreservesMode ==
    [][\A p \in Procs :
          (pc[p] = "rename" /\ pc'[p] = "done" /\ loc'[p].err = "")
             => /\ loc'[p].changed
                /\ disk'[loc[p].f].content = loc[p].ret
                /\ disk'[loc[p].f].mode = disk[loc[p].f].mode]_vars

\* A changed update of the second zone, whose file has mode 0644, has
\* returned: the file holds the rendered zone with that mode.
C21_Witness ==
    /\ pc[1] = "done"
    /\ loc[1].f = 2
    /\ loc[1].err = ""
    /\ loc[1].changed
    /\ disk[2] = [content |-> loc[1].ret, mode |-> "0644"]

\* A run that computed the entries it had loaded did nothing.
NoOpWhenEqual(run, before) ==
    (run.err = "" /\ run.new = run.old)
        => ~run.changed /\ ~run.wrote /\ run.out = before

Repeated == res.set /\ arg.fn = "repeat"

NeedsValues(type) ==
    CASE type = "SOA" -> 3
      [] type = "SRV" -> 4
      [] type = "MX" -> 2
      [] type = "RRSIG" -> 8
      [] type \in {"NS", "CNAME", "PTR", "NSEC"} -> 1
      [] type \in {"DS", "CDS", "DNSKEY", "CDNSKEY", "TLSA"} -> 4
      [] type = "TXT" -> 1
      [] OTHER -> 0

\* C23: Reformat never panics; it returns an error for a text that does not
\* parse and for a text with a record of type SOA, SRV, MX, RRSIG, NS,
\* CNAME, PTR, NSEC, DS, CDS, DNSKEY, CDNSKEY, TLSA or TXT that has fewer
\* value tokens than the layout of its type reads.
C23_ReformatNeverPanics ==
    (res.set /\ arg.fn = "Reformat")
        => /\ res.first.err # "panic"
           /\ ~ParseOK(arg.text) => res.first.err = "parse"
           /\ (\E i \in 1..Len(arg.text) :
                  /\ arg.text[i].k = "rr"
                  /\ Len(arg.text[i].values) < NeedsValues(arg.text[i].type))
                 => res.first.err # ""

\* Handler p is inside a File operation.
Running(p) == pc[p] \in {"lock", "update", "create", "write", "rename"}

\* C24: while one operation holds the lock of a zone file, at any step of
\* its reload, edit and rewrite, an operation on another zone file is never
\* held up: it can take its own file's lock, and once it holds that lock
\* none of its steps waits for anything.
C24_OtherFilesNotBlocked ==
    \A p, q \in Procs :
        (p # q /\ Running(p) /\ mu[loc[p].f] = p /\ Running(q) /\ loc[q].f # loc[p].f)
            => IF pc[q] = "lock" THEN ENABLED Lock(q) ELSE mu[loc[q].f] = q

\* Handler 1 is about to rename over the first zone file, holding its lock,
\* while handler 2 has rewritten the second zone file and returned.
C24_Witness ==
    /\ pc[1] = "rename" /\ loc[1].f = 1 /\ mu[1] = 1
    /\ pc[2] = "done" /\ loc[2].f = 2 /\ loc[2].err = "" /\ loc[2].changed
    /\ disk[2].content = loc[2].ret

OtherFamily(types) == {"A", "AAAA"} \ types

\* C25: a dynamic-DNS update with addresses of one family only leaves the
\* owner's records of the other family as they were: with IPv4 addresses
\* only every AAAA record of the owner is kept, with IPv6 addresses only
\* every A record, both in the entries computed and in the file written.
C25_OtherFamilyKept ==
    \A p \in Procs :
        (Succeeded(p, "ddns") /\ Cardinality(FamilyTypes(req[p].addrs)) = 1) =>
            LET kept == OtherFamily(FamilyTypes(req[p].addrs))
                before == RecsAt(loc[p].old, ShortDomain(p), kept)
            IN /\ RecsAt(loc[p].new, ShortDomain(p), kept) = before
               /\ RecsAt(PostEntries(p), ShortDomain(p), kept) = before

\* An IPv6-only update of an owner that has an A record was written, and
\* the A record is in the file as before.
C25_Witness ==
    /\ Succeeded(1, "ddns") /\ loc[1].changed
    /\ FamilyTypes(req[1].addrs) = {"AAAA"}
    /\ Len(RecsAt(loc[1].old, ShortDomain(1), {"A"})) > 0
    /\ RecsAt(PostEntries(1), ShortDomain(1), {"A"})
         = RecsAt(loc[1].old, ShortDomain(1), {"A"})
    /\ disk[loc[1].f].content = loc[1].ret

\* The record an out-of-band edit added is among the lines of a text.
HasAdded(text) == \E i \in 1..Len(text) : text[i] = AddedRecord

AddedKept(text, o) ==
    \E i \in 1..Len(EntriesOf(text, o)) :
        LET e == EntriesOf(text, o)[i]
        IN e.k = "rr" /\ e.owner = AddedRecord.owner /\ e.type = AddedRecord.type
           /\ e.values = AddedRecord.values

\* C26: an update operation edits the file as it is on disk when the
\* operation reads it under the lock: a record added out of band before
\* that read, and not matched by the operation, is in the entries the
\* operation loads and in the text it writes.
C26_ReadsCurrentFile ==
    \A p \in Procs :
        (pc[p] \in {"create", "write", "rename", "done"} /\ loc[p].f # 0
         /\ loc[p].err = "" /\ loc[p].changed /\ HasAdded(loc[p].pre.content))
            => /\ \E i \in 1..Len(loc[p].old) :
                     loc[p].old[i].owner = AddedRecord.owner
               /\ AddedKept(loc[p].ret, origin[loc[p].f])

\* A record was added out of band, then an update of another owner rewrote
\* the file: the added record is in the file on disk.
C26_Witness ==
    /\ Succeeded(1, "ddns") /\ loc[1].changed
    /\ HasAdded(loc[1].pre.content)
    /\ disk[loc[1].f].content = loc[1].ret
    /\ AddedKept(disk[loc[1].f].content, origin[loc[1].f])

\* C27: as long as no zone file is edited out of band, no update operation
\* fails with ErrOriginChanged, for a zone with a $ORIGIN directive and for
\* a zone whose origin is the owner of its SOA record alike.
C27_OriginStable ==
    \A p \in Procs :
        (nEdits = 0 /\ pc[p] = "done") => loc[p].err # "ErrOriginChanged"

\* ------------------------------------------------------------------------
\* The LEGO HTTP-REQ sequence: POST /present twice, then POST /cleanup twice
\* ------------------------------------------------------------------------
LegoFqdns == {OriginE, NameAE, OriginB, OriginC}

LegoValues == {<<>>, <<"tok1">>, <<"tok2">>, EmptyPlaceholder}

LegoInit ==
    /\ New
    /\ arg \in {[NoArg EXCEPT !.fn = "lego", !.files = <<z, ZoneB, ZoneC>>,
                               !.domain = d, !.value = v, !.other = w] :
                   z \in {ZoneE, ZoneT}, d \in LegoFqdns,
                   v \in LegoValues, w \in LegoValues}
    /\ arg.value # arg.other
    /\ res = [NoRes EXCEPT !.first.out = arg.files]

\* One LEGO call made on the zone files the calls before it left; the
\* error of the sequence is the first error of one of its calls.
LegoCall(r) ==
    LET run == RunUpdate(StartupOrigins(arg.files), res.first.out, r, now)
    IN [err |-> IF res.first.err # "" THEN res.first.err ELSE run.err,
        out |-> run.out]

\* The client posts /present with the first value, then with the second.
LegoPresent ==
    /\ arg.fn = "lego"
    /\ arg.http = <<>>
    /\ res.file \in {0, 1}
    /\ arg' = [arg EXCEPT !.http =
                  ACMEReq(arg.domain,
                          IF res.file = 0 THEN arg.value ELSE arg.other,
                          EmptyPlaceholder)]
    /\ UNCHANGED <<ctrl, res>>

\* The client posts /cleanup with one of the two values not cleaned up yet.
LegoCleanup(v) ==
    /\ arg.fn = "lego"
    /\ arg.http = <<>>
    /\ res.file \in {2, 3}
    /\ v \in {arg.value, arg.other}
    /\ \A i \in 1..Len(res.short) : res.short[i] # v
    /\ arg' = [arg EXCEPT !.http = ACMEReq(arg.domain, <<>>, v)]
    /\ res' = [res EXCEPT !.short = Append(@, v)]
    /\ UNCHANGED ctrl

\* The handler makes the controller call of the request.
LegoServe ==
    /\ arg.fn = "lego"
    /\ arg.http # <<>>
    /\ res' = [res EXCEPT !.set = TRUE, !.file = @ + 1,
                          !.first = LegoCall(arg.http)]
    /\ arg' = [arg EXCEPT !.http = <<>>]
    /\ UNCHANGED ctrl

LegoNext ==
    \/ LegoPresent
    \/ \E v \in LegoValues : LegoCleanup(v)
    \/ LegoServe

LegoSpec == LegoInit /\ [][LegoNext]_vars

\* A TXT record with the one value v at the owner _acme-challenge.<fqdn> in
\* the zone file the fqdn is dispatched to.
HasChallenge(files, v) ==
    LET origins == StartupOrigins(arg.files)
        domainDot == DomainDot(ACMEReq(arg.domain, <<>>, <<>>))
        fl == findZoneFile(origins, domainDot)
    IN /\ fl # 0
       /\ \E i \in 1..Len(loadAnyOrigin(files[fl], origins[fl]).ents) :
             LET e == loadAnyOrigin(files[fl], origins[fl]).ents[i]
             IN /\ e.k = "rr"
                /\ e.type = "TXT"
                /\ e.owner = ZoneStripOrigin(domainDot, origins[fl])
                /\ e.values = <<v>>

LegoHolds ==
    /\ res.file = 2 => /\ HasChallenge(res.first.out, arg.value)
                       /\ HasChallenge(res.first.out, arg.other)
    /\ res.file = 4 => /\ ~HasChallenge(res.first.out, arg.value)
                       /\ ~HasChallenge(res.first.out, arg.other)

ZmValues ==
    {<<<<"v4", "1">>>>,
     <<<<"v4", "1">>, <<"v4", "2">>>>,
     <<<<"v4", "1">>, Newline, <<"x">>, <<"IN">>, <<"A">>, <<"v4", "2">>>>,
     <<<<"v4", "1">>, Newline, <<"a">>, <<"IN">>, <<"TXT">>, <<"tok1">>>>,
     <<<<"v4", "1">>, Newline, <<"$ORIGIN">>, <<"x", ".">>>>}

ZmValueRequests ==
    {ZMReq(d, t, <<v>>) :
        d \in {NameAE, <<"w", ".", "e", ".">>, NameABE},
        t \in {"A", "AAAA", "CNAME"}, v \in ZmValues}

ZmValueInit ==
    /\ New
    /\ arg \in {[NoArg EXCEPT !.fn = "zm", !.files = <<z, ZoneB, ZoneC>>,
                               !.http = r] :
                   z \in {ZoneE, ZoneT}, r \in ZmRequests \cup ZmValueRequests}
    /\ res = NoRes

\* One POST /zm/update on a controller just started.
ZmValue ==
    /\ arg.fn = "zm"
    /\ ~res.set
    /\ res' = [NoRes EXCEPT !.set = TRUE,
                            !.first = RunUpdate(StartupOrigins(arg.files),
                                                arg.files, arg.http, now)]
    /\ UNCHANGED <<ctrl, arg>>

ZmValueNext == ZmValue

ZmValueSpec == ZmValueInit /\ [][ZmValueNext]_vars

\* C29: after a successful ZMUpdateRecord(domain, type, values), every entry
\* of the zone that was added or differs from the entries before has the
\* requested owner and the requested type, whatever the value strings hold
\* (a line break, extra tokens): no record at another owner, no record of
\* another type and no control directive appears or changes.
C29_ZMOnlyRequested ==
    (arg.fn = "zm" /\ res.set /\ res.first.err = "")
        => LET origins == StartupOrigins(arg.files)
               domainDot == DomainDot(arg.http)
               fl == findZoneFile(origins, domainDot)
           IN \A i \in 1..Len(res.first.new) :
                 LET e == res.first.new[i]
                 IN (\A j \in 1..Len(res.first.old) : res.first.old[j] # e)
                        => /\ e.k = "rr"
                           /\ e.owner = ZoneStripOrigin(domainDot, origins[fl])
                           /\ e.type = UpperType(arg.http.typ)

\* ------------------------------------------------------------------------
\* Handlers under fair scheduling
\* ------------------------------------------------------------------------
\* Calls that leave the File operation by each of its return paths:
\* success, unchanged, ErrNoMatchers, unknown record type, snippet parse
\* error, ErrRecordNotFound, reformat error, ErrOriginChanged.
LiveRequests ==
    {DDNSReq(NameAE, <<Addr(4, 1)>>),
     DDNSReq(NameAE, <<Addr(4, 9), Addr(6, 9)>>),
     DDNSReq(NameAE, <<>>),
     ZMReq(NameAE, "BOGUS", <<<<<<"v4", "1">>>>>>),
     ZMReq(NameAE, "A", <<<<Unbalanced>>>>),
     ZMReq(NameNE, "A", <<<<<<"v4", "1">>>>>>),
     ZMReq(NameAE, "MX", <<<<<<"2", "0">>>>>>),
     DDNSReq(NameACE, <<Addr(4, 1)>>)}

ReturnPaths ==
    {"", "ErrNoMatchers", "unknown rrtype", "parse", "ErrRecordNotFound",
     "ErrOriginChanged", "malformed", "io"}

LiveNext ==
    \/ \E p \in Procs : Start(p, LiveRequests)
    \/ \E p \in Procs : Lock(p)
    \/ \E p \in Procs : Update(p)
    \/ \E p \in Procs : Create(p)
    \/ \E p \in Procs : Write(p)
    \/ \E p \in Procs : Rename(p)
    \/ \E p \in Procs : Fault(p)

\* A goroutine that can run does run; sync.Mutex hands the lock to a
\* waiter that keeps waiting (starvation mode).  Update(p) is enabled
\* exactly at "update" and every step of it leaves that position, so its
\* weak fairness, WF_vars(Update(p)), is that the handler is again and
\* again not at "update".
LiveFairness ==
    \A p \in Procs :
        /\ SF_vars(Lock(p))
        /\ []<>(pc[p] # "update")
        /\ WF_vars(Create(p))
        /\ WF_vars(Write(p))
        /\ WF_vars(Rename(p))

LiveSpec == Init /\ [][LiveNext]_vars /\ LiveFairness

\* C30: every update operation releases the mutex of its file on every
\* return path, so under fair scheduling every operation that was
\* dispatched to a file returns, also behind a predecessor that failed.
C30_EventuallyReturns ==
    /\ [](\A p \in Procs :
            pc[p] = "done" => /\ loc[p].err \in ReturnPaths \cup {"ErrZoneNotFound"}
                              /\ \A f \in Files : mu[f] # p)
    /\ \A p \in Procs : (pc[p] = "lock") ~> (pc[p] = "done")

C30_Witness ==
    /\ pc[1] = "done"
    /\ loc[1].err \in ReturnPaths \ {""}
    /\ pc[2] = "done"
    /\ loc[2].f = loc[1].f
    /\ loc[2].err = ""
    /\ loc[2].changed
    /\ loc[2].old = loc[1].old
    /\ nOps = 2
    /\ \A f \in Files : mu[f] = 0

====
